---------------------------- MODULE Spec2Model ----------------------------
(***************************************************************************)
(* Tickly: the background service worker (src/background.js) of a Pomodoro *)
(* timer extension, as a state machine.                                    *)
(*                                                                         *)
(* The worker's handlers are async functions.  A handler runs without      *)
(* interruption up to its next call of a chrome.* API; the call takes      *)
(* effect when it is issued and the handler is then suspended until the    *)
(* event loop resumes it.  While it is suspended any other handler (a      *)
(* popup message, a tick of the interval, the alarm) may start or resume.  *)
(* A suspended handler is a task: the list of the code blocks it still has *)
(* to run, and the value its pending storage read returned.                *)
(*                                                                         *)
(* Times are milliseconds, durations are seconds, as in the source.  A     *)
(* null timestamp and a null/undefined interval id are 0: JavaScript       *)
(* treats both as falsy and as the number 0 in arithmetic.                 *)
(***************************************************************************)
EXTENDS Integers, Sequences, FiniteSets, Bags, TLC

----------------------------------------------------------------------------
(* Bounds of the model.                                                    *)

\* handlers that may be suspended at the same time
MaxTasks == 2
\* half-second steps the clock takes
MaxShortSteps == 3
\* long waits (one short of a minute each) the clock takes
MaxLongWaits == 1
\* popup messages sent in one run
MaxMessages == 3

----------------------------------------------------------------------------
(* Constants of the program.                                               *)

\* Number(value) of undefined or of a non-numeric value: not finite
NaN == -1
\* milliseconds in a second (elapsedMs / 1000, remaining * 1000)
MsPerSecond == 1000
\* period of the tick interval, setInterval(..., 1000)
TickPeriodMs == 1000
\* sanitizeSettings: bounds of the numeric fields
MinDuration == 60
MaxWorkDuration == 3600
MaxShortBreakDuration == 1800
MaxLongBreakDuration == 3600
MinLongBreakInterval == 0
MaxLongBreakInterval == 12

\* SESSION_TYPES
WORK == "work"
SHORT_BREAK == "shortBreak"
LONG_BREAK == "longBreak"
SESSION_TYPES == {WORK, SHORT_BREAK, LONG_BREAK}

\* the keys a raw settings object may lack
SettingsPaths ==
    {"durations", "durations.work", "durations.shortBreak", "durations.longBreak",
     "longBreakInterval", "autoStartBreaks", "autoStartWork",
     "notifications", "notifications.desktop", "notifications.sound",
     "notifications.soundType", "tickingSound", "tickingSound.enabled"}

\* the keys whose value sanitizeSettings reads as a number
NumericPaths ==
    {"durations.work", "durations.shortBreak", "durations.longBreak",
     "longBreakInterval"}

\* A settings object is a record of all fields plus the set `absent` of the
\* keys it does not have (their values are then meaningless) and the set
\* `fraction` of the numeric keys whose value is the recorded integer plus one
\* half.  Sanitized settings have every key.
DEFAULT_SETTINGS ==
    [durations |-> [work |-> 1500, shortBreak |-> 300, longBreak |-> 900],
     longBreakInterval |-> 4,
     autoStartBreaks |-> FALSE,
     autoStartWork |-> FALSE,
     notifications |-> [desktop |-> TRUE, sound |-> TRUE, soundType |-> "beep"],
     tickingSound |-> [enabled |-> FALSE],
     absent |-> {},
     fraction |-> {}]

\* the value of undefined / of an object that has none of the keys
UndefinedSettings == [DEFAULT_SETTINGS EXCEPT !.absent = SettingsPaths]

\* obj.key, where a missing object or key reads as undefined
Has(raw, obj, key) == obj \notin raw.absent /\ key \notin raw.absent

\* a sanitizeNumber that clamps to the nearest bound
sanitizeNumber_clamped(value, fallback, min, max) ==
    IF value = NaN THEN fallback
    ELSE IF value < min THEN min
    ELSE IF value > max THEN max
    ELSE value

sanitizeNumber(value, fallback, min, max) ==
    IF value = NaN THEN fallback
    ELSE IF value < min THEN fallback
    ELSE IF value > max THEN fallback
    ELSE value

\* sanitizeSettings computes on numbers that need not be whole: they are
\* counted in halves
HalvesPerUnit == 2
InHalves(n) == n * HalvesPerUnit
Whole(h) == h \div HalvesPerUnit
Fractional(h) == h % HalvesPerUnit # 0

\* Math.floor, of a number in halves
MathFloor(h) == InHalves(Whole(h))

\* rawSettings.durations?.work read as minutes, the unit of the popup's form
RawNumber_minutes(raw, obj, key, v) ==
    IF Has(raw, obj, key) /\ v # NaN
    THEN 60 * (InHalves(v) + (IF key \in raw.fraction THEN 1 ELSE 0))
    ELSE NaN

\* rawSettings.durations?.work and its like, as a number in halves or NaN
RawNumber(raw, obj, key, v) ==
    IF Has(raw, obj, key) /\ v # NaN
    THEN InHalves(v) + (IF key \in raw.fraction THEN 1 ELSE 0)
    ELSE NaN

sanitizeSettings(rawSettings) ==
    LET D == DEFAULT_SETTINGS
        work == sanitizeNumber(
            RawNumber(rawSettings, "durations", "durations.work",
                      rawSettings.durations.work),
            InHalves(D.durations.work), InHalves(MinDuration), InHalves(MaxWorkDuration))
        shortBreak == sanitizeNumber(
            RawNumber(rawSettings, "durations", "durations.shortBreak",
                      rawSettings.durations.shortBreak),
            InHalves(D.durations.shortBreak), InHalves(MinDuration),
            InHalves(MaxShortBreakDuration))
        longBreak == sanitizeNumber(
            RawNumber(rawSettings, "durations", "durations.longBreak",
                      rawSettings.durations.longBreak),
            InHalves(D.durations.longBreak), InHalves(MinDuration),
            InHalves(MaxLongBreakDuration))
        longBreakInterval == MathFloor(sanitizeNumber(
            RawNumber(rawSettings, "longBreakInterval", "longBreakInterval",
                      rawSettings.longBreakInterval),
            InHalves(D.longBreakInterval), InHalves(MinLongBreakInterval),
            InHalves(MaxLongBreakInterval)))
    IN
    [durations |->
        [work |-> Whole(work),
         shortBreak |-> Whole(shortBreak),
         longBreak |-> Whole(longBreak)],
     longBreakInterval |-> Whole(longBreakInterval),
     fraction |->
         {p \in NumericPaths :
             Fractional(CASE p = "durations.work" -> work
                          [] p = "durations.shortBreak" -> shortBreak
                          [] p = "durations.longBreak" -> longBreak
                          [] OTHER -> longBreakInterval)},
     autoStartBreaks |-> Has(rawSettings, "autoStartBreaks", "autoStartBreaks")
                         /\ rawSettings.autoStartBreaks,
     autoStartWork |-> Has(rawSettings, "autoStartWork", "autoStartWork")
                       /\ rawSettings.autoStartWork,
     notifications |->
        [desktop |-> ~(Has(rawSettings, "notifications", "notifications.desktop")
                       /\ rawSettings.notifications.desktop = FALSE),
         sound |-> ~(Has(rawSettings, "notifications", "notifications.sound")
                     /\ rawSettings.notifications.sound = FALSE),
         soundType |-> IF Has(rawSettings, "notifications", "notifications.soundType")
                          /\ rawSettings.notifications.soundType \in {"beep", "chime", "bell"}
                       THEN rawSettings.notifications.soundType
                       ELSE DEFAULT_SETTINGS.notifications.soundType],
     tickingSound |->
        [enabled |-> Has(rawSettings, "tickingSound", "tickingSound.enabled")
                     /\ rawSettings.tickingSound.enabled],
     absent |-> {}]

\* {...a, ...b} on one key: b's value when b has the key, else a's
Spread(hasB, b, a) == IF hasB THEN b ELSE a

\* mergeSettings(savedSettings, legacyDurations).  hasSaved / hasLegacy: the
\* argument is not undefined.  legacy is a settings object whose durations
\* are the legacy durations.  Top-level keys come from savedSettings when it
\* has them; the three nested objects are merged key by key over the
\* defaults; legacy durations are then spread over the merged durations.
mergeSettings(hasSaved, savedSettings, hasLegacy, legacy) ==
    LET saved == IF hasSaved THEN savedSettings ELSE UndefinedSettings
        leg == IF hasLegacy THEN legacy ELSE UndefinedSettings
        D == DEFAULT_SETTINGS
        Source(key) ==
            IF key = "longBreakInterval"
            THEN IF Has(saved, key, key) THEN saved ELSE D
            ELSE IF Has(leg, "durations", key) THEN leg
            ELSE IF Has(saved, "durations", key) THEN saved
            ELSE D
        Dur(key, sv, lv) ==
            Spread(Has(leg, "durations", key), lv,
                   Spread(Has(saved, "durations", key), sv, D.durations[
                       CASE key = "durations.work" -> "work"
                         [] key = "durations.shortBreak" -> "shortBreak"
                         [] OTHER -> "longBreak"]))
        merged ==
            [durations |->
                [work |-> Dur("durations.work", saved.durations.work, leg.durations.work),
                 shortBreak |-> Dur("durations.shortBreak", saved.durations.shortBreak,
                                    leg.durations.shortBreak),
                 longBreak |-> Dur("durations.longBreak", saved.durations.longBreak,
                                   leg.durations.longBreak)],
             longBreakInterval |->
                 Spread(Has(saved, "longBreakInterval", "longBreakInterval"),
                        saved.longBreakInterval, D.longBreakInterval),
             autoStartBreaks |->
                 Spread(Has(saved, "autoStartBreaks", "autoStartBreaks"),
                        saved.autoStartBreaks, D.autoStartBreaks),
             autoStartWork |->
                 Spread(Has(saved, "autoStartWork", "autoStartWork"),
                        saved.autoStartWork, D.autoStartWork),
             notifications |->
                [desktop |-> Spread(Has(saved, "notifications", "notifications.desktop"),
                                    saved.notifications.desktop, D.notifications.desktop),
                 sound |-> Spread(Has(saved, "notifications", "notifications.sound"),
                                  saved.notifications.sound, D.notifications.sound),
                 soundType |-> Spread(Has(saved, "notifications", "notifications.soundType"),
                                      saved.notifications.soundType,
                                      D.notifications.soundType)],
             tickingSound |->
                [enabled |-> Spread(Has(saved, "tickingSound", "tickingSound.enabled"),
                                    saved.tickingSound.enabled, D.tickingSound.enabled)],
             absent |-> {},
             fraction |-> {p \in NumericPaths : p \in Source(p).fraction}]
    IN sanitizeSettings(merged)

getSessionDuration(s, sessionType) ==
    CASE sessionType = WORK -> s.durations.work
      [] sessionType = SHORT_BREAK -> s.durations.shortBreak
      [] sessionType = LONG_BREAK -> s.durations.longBreak
      [] OTHER -> s.durations.work


----------------------------------------------------------------------------
(* State.                                                                  *)

VARIABLES
    now,          \* Date.now()
    timerState,   \* the module variable timerState
    settings,     \* the module variable settings
    store,        \* chrome.storage.local
    alarm,        \* deadline of the pending 'pomodoro-end' alarm, 0 when none
    intervals,    \* the live setInterval timers: [id, due]
    tasks,        \* the suspended handlers (a bag)
    resp,         \* the response the last step handed to sendResponse, if any
    sent,         \* popup messages sent so far
    stateLoaded,  \* history: loadState has assigned timerState since the module
                  \* was evaluated
    tracked,      \* history: the work session a start command began (armed
                  \* from the command to the start), while no other command
                  \* has been sent since
    completion,   \* history: k, the work completions counted since the last
                  \* reset, and what the completion of this step did
    pauseRecord,  \* history: what the last pause left (its snapshot of
                  \* timeRemaining, initialDuration), and when the start
                  \* command that resumes it was received
    acked,        \* history: what the state that the last command was
                  \* acknowledged with reports, while no command was sent and
                  \* no session completed since
    popup         \* the variables of the popup (src/popup.js) while its
                  \* display is observed

vars == <<now, timerState, settings, store, alarm, intervals, tasks, resp,
          sent, stateLoaded, tracked, completion, pauseRecord, acked, popup>>

\* let timerState = {...}: the state of a freshly evaluated module
DefaultTimerState ==
    [isRunning |-> FALSE,
     isPaused |-> FALSE,
     currentSession |-> WORK,
     timeRemaining |-> DEFAULT_SETTINGS.durations.work,
     cycleCount |-> 0,
     startTime |-> 0,
     pausedAt |-> 0,
     totalPausedTime |-> 0,
     initialDuration |-> DEFAULT_SETTINGS.durations.work,
     tickInterval |-> 0]

\* chrome.storage.local of a fresh install: no key is set
EmptyStore ==
    [hasSettings |-> FALSE, settings |-> DEFAULT_SETTINGS,
     hasDurations |-> FALSE, durations |-> DEFAULT_SETTINGS.durations,
     hasState |-> FALSE, timerState |-> DefaultTimerState,
     sessionHistory |-> 0]

\* no work session is tracked
Untracked == [c |-> -1, h |-> 0, deadline |-> 0, reloaded |-> FALSE, armed |-> FALSE]

\* loadState found no expired session
NotExpired == [c |-> -1, session |-> WORK]

\* k work completions so far, none in this step
NoCompletion(k) == [k |-> k, counted |-> FALSE, to |-> "none"]

\* what a state snapshot reports of the session
Reported(ts) ==
    [isRunning |-> ts.isRunning, isPaused |-> ts.isPaused,
     currentSession |-> ts.currentSession, cycleCount |-> ts.cycleCount,
     startTime |-> ts.startTime, initialDuration |-> ts.initialDuration,
     totalPausedTime |-> ts.totalPausedTime]

\* no acknowledged command is on record
NotAcked == [set |-> FALSE, state |-> Reported(DefaultTimerState)]

\* the messages that are commands
Commands == {"start", "pause", "reset", "skip", "updateSettings", "updateDurations"}

\* no pause is on record
NoPause == [tr |-> -1, d |-> 0, at |-> 0]

\* no response
NoResponse ==
    [action |-> "none", success |-> FALSE, error |-> "none",
     state |-> DefaultTimerState, late |-> FALSE,
     resume |-> NoPause, acked |-> NotAcked, fault |-> "none"]

\* the timer counts down
Running(ts) == ts.isRunning /\ ~ts.isPaused

\* Math.max(0, initialDuration - Math.floor((now - startTime - totalPausedTime) / 1000))
Remaining(ts, t) ==
    LET elapsedMs == t - ts.startTime - ts.totalPausedTime
        elapsedSeconds == elapsedMs \div MsPerSecond
        r == ts.initialDuration - elapsedSeconds
    IN IF r > 0 THEN r ELSE 0

\* the legacy durations key, as the durations of a settings object
LegacyOf(durations) ==
    [UndefinedSettings EXCEPT
        !.durations = durations,
        !.absent = SettingsPaths \ {"durations", "durations.work",
                                    "durations.shortBreak", "durations.longBreak"}]

----------------------------------------------------------------------------
(* The code blocks of the handlers.  A block takes the worker's globals g  *)
(* (the variables but the clock and the tasks, timerState as ts), the      *)
(* task t that runs it (its own label already popped), the clock, and the  *)
(* interval ids other tasks still hold; it yields the new globals, the     *)
(* task with the blocks it has to run next pushed, and whether the block   *)
(* ended in an awaited chrome.* call (the task is then suspended).         *)

Ret(g, t, push, yield) ==
    [g |-> g, t |-> [t EXCEPT !.stack = push \o @], yield |-> yield]

\* await chrome.storage.local.set({ timerState }) in its try: a write that
\* rejects leaves the store as it is, the error is logged and saveState
\* returns
saveState(g, t) ==
    IF g.resp.fault = "store"
    THEN Ret(g, t, <<>>, TRUE)
    ELSE Ret([g EXCEPT !.store.hasState = TRUE, !.store.timerState = g.ts],
             t, <<>>, TRUE)

\* loadSettings up to its await of chrome.storage.local.get
loadSettings_get(g, t) ==
    Ret(g, [t EXCEPT !.snap = g.store], <<>>, TRUE)

\* loadSettings from the result of get to its await of set
loadSettings_set(g, t) ==
    LET s == mergeSettings(t.snap.hasSettings, t.snap.settings,
                           t.snap.hasDurations, LegacyOf(t.snap.durations))
    IN Ret([g EXCEPT !.settings = s,
                     !.store.hasSettings = TRUE, !.store.settings = s,
                     !.store.hasDurations = TRUE, !.store.durations = s.durations],
           [t EXCEPT !.snap = EmptyStore], <<>>, TRUE)

\* loadState: await chrome.storage.local.get(['timerState'])
loadState_get(g, t) ==
    Ret(g, [t EXCEPT !.snap = g.store], <<>>, TRUE)

\* the blocks of handleTimerComplete, in order
HandleTimerCompleteBlocks == <<"handleTimerComplete", "handleTimerComplete_history">>

\* loadState from the result of get on
loadState_apply(g, t, time) ==
    LET t1 == [t EXCEPT !.snap = EmptyStore]
        g1 == [g EXCEPT !.stateLoaded = TRUE]
        saved == t.snap.timerState
    IN IF t.snap.hasState
       THEN IF saved.isRunning /\ ~saved.isPaused /\ saved.startTime # 0
            THEN LET ts == [saved EXCEPT !.timeRemaining = Remaining(saved, time)]
                 IN IF ts.timeRemaining <= 0
                    THEN Ret([g1 EXCEPT !.ts = ts],
                             [t1 EXCEPT !.expired =
                                 IF g.stateLoaded THEN NotExpired
                                 ELSE [c |-> saved.cycleCount,
                                       session |-> saved.currentSession]],
                             HandleTimerCompleteBlocks, FALSE)
                    ELSE Ret([g1 EXCEPT !.ts = ts], t1, <<>>, FALSE)
            ELSE IF ~saved.isRunning /\ ~saved.isPaused
            THEN LET expectedDuration == getSessionDuration(g.settings, saved.currentSession)
                 IN IF saved.timeRemaining # expectedDuration
                    THEN Ret([g1 EXCEPT !.ts = [saved EXCEPT
                                            !.timeRemaining = expectedDuration,
                                            !.initialDuration = expectedDuration]],
                             t1, <<"saveState">>, FALSE)
                    ELSE Ret([g1 EXCEPT !.ts = saved], t1, <<>>, FALSE)
            ELSE Ret([g1 EXCEPT !.ts = saved], t1, <<>>, FALSE)
       ELSE LET d == getSessionDuration(g.settings, WORK)
            IN Ret([g1 EXCEPT !.ts = [g.ts EXCEPT !.currentSession = WORK,
                                                  !.timeRemaining = d,
                                                  !.initialDuration = d]],
                   t1, <<"saveState">>, FALSE)

\* scheduleEndAlarm
scheduleEndAlarm(g, t, time) ==
    IF ~g.ts.isRunning \/ g.ts.isPaused \/ g.ts.startTime = 0
    THEN Ret(g, t, <<>>, FALSE)
    ELSE LET remainingMs ==
                 (IF g.ts.timeRemaining > 1 THEN g.ts.timeRemaining ELSE 1) * MsPerSecond
         IN Ret([g EXCEPT !.alarm = time + remainingMs], t, <<>>, TRUE)

\* clearEndAlarm
clearEndAlarm(g, t) ==
    Ret([g EXCEPT !.alarm = 0], t, <<>>, TRUE)

\* clearInterval(id): no effect when id is not a live timer
ClearInterval(ivs, id) == {iv \in ivs : iv.id # id}

\* the id setInterval returns: one no live timer has and nothing still holds
\* (ids are opaque; the worker only compares them and tests them for null)
NewIntervalId(g, held) ==
    LET used == {iv.id : iv \in g.intervals}
                \cup {g.ts.tickInterval, g.store.timerState.tickInterval} \cup held
    IN CHOOSE n \in 1..(Cardinality(used) + 1) :
           n \notin used /\ \A m \in 1..(n - 1) : m \in used

\* startTick: drop the interval timerState knows of, start a new one
startTick(g, t, time, held) ==
    LET id == NewIntervalId(g, held)
        live == IF g.ts.tickInterval # 0
                THEN ClearInterval(g.intervals, g.ts.tickInterval)
                ELSE g.intervals
    IN Ret([g EXCEPT !.intervals = live \cup {[id |-> id, due |-> time + TickPeriodMs]},
                     !.ts.tickInterval = id],
           t, <<>>, FALSE)

\* handleTimerComplete: the sound is fired and forgotten, the desktop
\* notification is awaited when it is enabled
handleTimerComplete(g, t) ==
    Ret(g, t, <<>>, g.settings.notifications.desktop)

\* handleTimerComplete: a work session ended, so updateSessionHistory is
\* awaited (it suspends in its read of sessionHistory) before cycleCount++
handleTimerComplete_history(g, t) ==
    IF g.ts.currentSession = WORK
    THEN Ret(g, [t EXCEPT !.snap = g.store],
             <<"updateSessionHistory_set", "handleTimerComplete_count",
               "handleTimerComplete_next">>, TRUE)
    ELSE Ret(g, t, <<"handleTimerComplete_next">>, FALSE)

\* updateSessionHistory: history[today]++ on the map that was read, then set
updateSessionHistory_set(g, t) ==
    Ret([g EXCEPT !.store.sessionHistory = t.snap.sessionHistory + 1],
        [t EXCEPT !.snap = EmptyStore], <<>>, TRUE)

\* timerState.cycleCount++
handleTimerComplete_count(g, t) ==
    Ret([g EXCEPT !.ts.cycleCount = @ + 1,
                  !.completion.k = @ + 1,
                  !.completion.counted = TRUE],
        t, <<>>, FALSE)

\* handleTimerComplete: the session that follows currentSession, after
\* cycleCount work sessions
NextSession(currentSession, cycleCount, s) ==
    IF currentSession = WORK
    THEN IF s.longBreakInterval > 0 /\ cycleCount % s.longBreakInterval = 0
         THEN LONG_BREAK
         ELSE SHORT_BREAK
    ELSE WORK

\* a shouldAutostart that looks at autoStartBreaks for every session
ShouldAutostart_breaks(session, s) == s.autoStartBreaks

\* handleTimerComplete: shouldAutostart
ShouldAutostart(session, s) ==
    IF session = WORK THEN s.autoStartWork ELSE s.autoStartBreaks

\* a transition that gives the next session its remaining time and leaves
\* initialDuration at the duration of the session that ended
handleTimerComplete_keepsDuration(g, t, time) ==
    LET next == NextSession(g.ts.currentSession, g.ts.cycleCount, g.settings)
        d == getSessionDuration(g.settings, next)
        shouldAutostart == ShouldAutostart(next, g.settings)
        ts == [g.ts EXCEPT !.currentSession = next,
                           !.timeRemaining = d,
                           !.isPaused = FALSE,
                           !.totalPausedTime = 0,
                           !.pausedAt = 0,
                           !.startTime = IF shouldAutostart THEN time ELSE 0,
                           !.isRunning = shouldAutostart]
    IN Ret([g EXCEPT !.ts = ts, !.completion.to = next, !.pauseRecord = NoPause,
                     !.acked = NotAcked], t,
           IF shouldAutostart THEN <<"scheduleEndAlarm", "startTick", "saveState">>
                              ELSE <<"clearEndAlarm", "saveState">>,
           FALSE)

\* handleTimerComplete: move to the next session, autostart it or stop
handleTimerComplete_next(g, t, time) ==
    LET next == NextSession(g.ts.currentSession, g.ts.cycleCount, g.settings)
        d == getSessionDuration(g.settings, next)
        shouldAutostart == ShouldAutostart(next, g.settings)
        ts == [g.ts EXCEPT !.currentSession = next,
                           !.timeRemaining = d,
                           !.isPaused = FALSE,
                           !.totalPausedTime = 0,
                           !.pausedAt = 0,
                           !.initialDuration = d,
                           !.startTime = IF shouldAutostart THEN time ELSE 0,
                           !.isRunning = shouldAutostart]
    IN Ret([g EXCEPT !.ts = ts, !.completion.to = next, !.pauseRecord = NoPause,
                     !.acked = NotAcked], t,
           IF shouldAutostart THEN <<"scheduleEndAlarm", "startTick", "saveState">>
                              ELSE <<"clearEndAlarm", "saveState">>,
           FALSE)

\* startTimer
startTimer(g, t, time) ==
    IF g.ts.isRunning /\ ~g.ts.isPaused
    THEN Ret(g, t, <<>>, FALSE)
    ELSE IF g.ts.isPaused
    THEN Ret([g EXCEPT !.ts.totalPausedTime = @ + (time - g.ts.pausedAt),
                       !.ts.isPaused = FALSE,
                       !.ts.pausedAt = 0],
             t, <<"saveState", "scheduleEndAlarm", "startTick">>, FALSE)
    ELSE Ret(g, t, <<"loadSettings_get", "loadSettings_set", "startTimer_fresh">>, FALSE)

\* startTimer, the fresh start after its await of loadSettings
startTimer_fresh(g, t, time) ==
    LET sessionDuration == getSessionDuration(g.settings, g.ts.currentSession)
    IN Ret([g EXCEPT !.ts.isRunning = TRUE,
                     !.ts.startTime = time,
                     !.ts.totalPausedTime = 0,
                     !.ts.timeRemaining = sessionDuration,
                     !.ts.initialDuration = sessionDuration,
                     !.tracked =
                         IF g.tracked.armed /\ g.ts.currentSession = WORK
                         THEN [c |-> g.ts.cycleCount,
                               h |-> g.store.sessionHistory,
                               deadline |-> time + sessionDuration * MsPerSecond,
                               reloaded |-> FALSE,
                               armed |-> FALSE]
                         ELSE Untracked],
           t, <<"saveState", "scheduleEndAlarm", "startTick">>, FALSE)

\* pauseTimer without its guard: it pauses a timer that is not running
pauseTimer_unguarded(g, t, time) ==
    LET snapshot == IF g.ts.startTime # 0 /\ g.ts.initialDuration # 0
                    THEN Remaining(g.ts, time)
                    ELSE g.ts.timeRemaining
    IN Ret([g EXCEPT !.ts.timeRemaining = snapshot,
                     !.ts.isPaused = TRUE,
                     !.ts.pausedAt = time,
                     !.ts.tickInterval = 0,
                     !.intervals = ClearInterval(@, g.ts.tickInterval),
                     !.pauseRecord = [tr |-> snapshot, d |-> g.ts.initialDuration,
                                      at |-> 0]],
           t, <<"clearEndAlarm", "saveState">>, FALSE)

\* pauseTimer
pauseTimer(g, t, time) ==
    IF ~g.ts.isRunning \/ g.ts.isPaused
    THEN Ret(g, t, <<>>, FALSE)
    ELSE LET snapshot == IF g.ts.startTime # 0 /\ g.ts.initialDuration # 0
                         THEN Remaining(g.ts, time)
                         ELSE g.ts.timeRemaining
         IN Ret([g EXCEPT !.ts.timeRemaining = snapshot,
                          !.ts.isPaused = TRUE,
                          !.ts.pausedAt = time,
                          !.ts.tickInterval = 0,
                          !.intervals = ClearInterval(@, g.ts.tickInterval),
                          !.pauseRecord = [tr |-> snapshot, d |-> g.ts.initialDuration,
                                           at |-> 0]],
                t, <<"clearEndAlarm", "saveState">>, FALSE)

\* a resetTimer that leaves the count of the cycle as it is
resetTimer_keepsCount(g, t) ==
    LET d == getSessionDuration(g.settings, WORK)
    IN Ret([g EXCEPT !.ts.isRunning = FALSE,
                     !.ts.isPaused = FALSE,
                     !.ts.startTime = 0,
                     !.ts.pausedAt = 0,
                     !.ts.totalPausedTime = 0,
                     !.pauseRecord = NoPause,
                     !.ts.currentSession = WORK,
                     !.ts.timeRemaining = d,
                     !.ts.initialDuration = d],
           t, <<"saveState", "clearEndAlarm">>, FALSE)

\* resetTimer after its await of loadSettings
resetTimer(g, t) ==
    LET d == getSessionDuration(g.settings, WORK)
    IN Ret([g EXCEPT !.ts.isRunning = FALSE,
                     !.ts.isPaused = FALSE,
                     !.ts.startTime = 0,
                     !.ts.pausedAt = 0,
                     !.ts.totalPausedTime = 0,
                     !.ts.cycleCount = 0,
                     !.completion.k = 0,
                     !.pauseRecord = NoPause,
                     !.ts.currentSession = WORK,
                     !.ts.timeRemaining = d,
                     !.ts.initialDuration = d],
           t, <<"saveState", "clearEndAlarm">>, FALSE)

\* case 'getState', after its await of loadState
getState(g, t, time) ==
    IF g.ts.isRunning /\ ~g.ts.isPaused /\ g.ts.startTime # 0 /\ g.ts.initialDuration # 0
    THEN IF g.ts.tickInterval = 0
         THEN LET r == Remaining(g.ts, time)
              IN Ret([g EXCEPT !.ts.timeRemaining = r], t,
                     IF r <= 0 THEN HandleTimerCompleteBlocks ELSE <<>>, FALSE)
         ELSE Ret(g, t, <<>>, FALSE)
    ELSE IF ~g.ts.isRunning /\ ~g.ts.isPaused
    THEN LET expectedDuration == getSessionDuration(g.settings, g.ts.currentSession)
         IN IF g.ts.timeRemaining # expectedDuration
            THEN Ret([g EXCEPT !.ts.timeRemaining = expectedDuration,
                               !.ts.initialDuration = expectedDuration],
                     t, <<"saveState">>, FALSE)
            ELSE Ret(g, t, <<>>, FALSE)
    ELSE Ret(g, t, <<>>, FALSE)

\* an updateSettings that leaves timeRemaining as it is
updateSettings_keep(g, t) ==
    Ret(g, t, <<>>, FALSE)

\* an updateSettings that gives the session the new duration whether or not
\* the timer is running
updateSettings_unguarded(g, t) ==
    LET d == getSessionDuration(g.settings, g.ts.currentSession)
    IN Ret([g EXCEPT !.ts.timeRemaining = d, !.ts.initialDuration = d],
           t, <<"saveState">>, FALSE)

\* case 'updateSettings' and case 'updateDurations', after the await of
\* chrome.storage.local.set
updateSettings_fix(g, t) ==
    IF ~g.ts.isRunning /\ ~g.ts.isPaused
    THEN LET d == getSessionDuration(g.settings, g.ts.currentSession)
         IN Ret([g EXCEPT !.ts.timeRemaining = d, !.ts.initialDuration = d],
                t, <<"saveState">>, FALSE)
    ELSE Ret(g, t, <<>>, FALSE)

\* a tick that counts one second down per call instead of recomputing the
\* remaining time from the start time: it drifts when a call is late
tick_countdown(g, t, time) ==
    IF ~g.ts.isRunning \/ g.ts.isPaused
    THEN Ret([g EXCEPT !.intervals = ClearInterval(@, g.ts.tickInterval),
                       !.ts.tickInterval = 0], t, <<>>, FALSE)
    ELSE LET calculatedRemaining ==
                 IF g.ts.timeRemaining > 0 THEN g.ts.timeRemaining - 1 ELSE 0
         IN IF calculatedRemaining <= 0
            THEN Ret([g EXCEPT !.ts.timeRemaining = calculatedRemaining,
                               !.intervals = ClearInterval(@, g.ts.tickInterval),
                               !.ts.tickInterval = 0],
                     t, HandleTimerCompleteBlocks, FALSE)
            ELSE Ret([g EXCEPT !.ts.timeRemaining = calculatedRemaining],
                     t, <<"saveState">>, FALSE)

\* the callback of the tick interval
tick(g, t, time) ==
    IF ~g.ts.isRunning \/ g.ts.isPaused
    THEN Ret([g EXCEPT !.intervals = ClearInterval(@, g.ts.tickInterval),
                       !.ts.tickInterval = 0], t, <<>>, FALSE)
    ELSE LET calculatedRemaining == Remaining(g.ts, time)
         IN IF g.ts.timeRemaining # calculatedRemaining
            THEN IF calculatedRemaining <= 0
                 THEN Ret([g EXCEPT !.ts.timeRemaining = calculatedRemaining,
                                    !.intervals = ClearInterval(@, g.ts.tickInterval),
                                    !.ts.tickInterval = 0],
                          t, HandleTimerCompleteBlocks, FALSE)
                 ELSE Ret([g EXCEPT !.ts.timeRemaining = calculatedRemaining],
                          t, <<"saveState">>, FALSE)
            ELSE Ret(g, t, <<>>, FALSE)

\* popup.js.  The popup keeps the last snapshot of the state it received
\* (currentState, null while hasState is false), its settings, and the
\* checkpoint its display counts from: checkpointStartAt (ms, 0 for null),
\* checkpointElapsed (counted in milliseconds: the source adds
\* (Date.now() - checkpointStartAt) / 1000 to it) and checkpointDuration
\* (seconds).  cycleInfo is the position shown in 'Cycle p/n'; refresh: the
\* updateUI() that ends handleSaveSettings is still to be called.

\* cycleInfo of 'Cycle -'
NoCycle == -1

\* the popup is closed, or its display is not observed
NoPopup ==
    [open |-> FALSE,
     hasState |-> FALSE,
     currentState |-> DefaultTimerState,
     currentSettings |-> DEFAULT_SETTINGS,
     checkpointStartAt |-> 0,
     checkpointElapsed |-> 0,
     checkpointDuration |-> 0,
     cycleInfo |-> NoCycle,
     refresh |-> FALSE]

\* the position without the second operand of ||: cycleCount % interval
cyclePosition_remainder(cycleCount, interval) ==
    IF cycleCount = 0 THEN 0
    ELSE cycleCount % interval

\* updateSessionInfo: cycleCount === 0 ? 0 : (cycleCount % interval || interval)
cyclePosition(cycleCount, interval) ==
    IF cycleCount = 0 THEN 0
    ELSE IF cycleCount % interval # 0 THEN cycleCount % interval
    ELSE interval

\* updateSessionInfo
updateSessionInfo(p) ==
    LET interval == p.currentSettings.longBreakInterval
    IN [p EXCEPT !.cycleInfo = IF interval > 0
                               THEN cyclePosition(p.currentState.cycleCount, interval)
                               ELSE NoCycle]

\* the checkpoint of a running timer
CheckpointRunning(p, newState, time) ==
    [p EXCEPT !.checkpointStartAt = time,
              !.checkpointElapsed =
                  (newState.initialDuration - newState.timeRemaining) * MsPerSecond,
              !.checkpointDuration = newState.initialDuration]

\* the checkpoint of a paused timer: the open period is folded into the
\* elapsed time, which the snapshot then replaces when it has a duration
CheckpointPaused(p, newState, time) ==
    LET folded == IF p.checkpointStartAt # 0
                  THEN [p EXCEPT !.checkpointElapsed = @ + (time - p.checkpointStartAt),
                                 !.checkpointStartAt = 0]
                  ELSE p
    IN IF newState.initialDuration # 0
       THEN [folded EXCEPT
                !.checkpointElapsed =
                    (newState.initialDuration - newState.timeRemaining) * MsPerSecond,
                !.checkpointDuration = newState.initialDuration]
       ELSE folded

\* the checkpoint of a timer at rest, and the one handleReset and handleSkip set
CheckpointReset(p, newState) ==
    [p EXCEPT !.checkpointStartAt = 0,
              !.checkpointElapsed = 0,
              !.checkpointDuration = newState.timeRemaining]

\* currentState = newState, then updateTimerDisplay(), updateSessionInfo(),
\* updateButtons()
Adopt(p, newState) ==
    updateSessionInfo([p EXCEPT !.currentState = newState, !.hasState = TRUE])

\* updateUI from the response to its getState on
updateUI_response(p, newState, time) ==
    LET stateChanged ==
            \/ ~p.hasState
            \/ p.currentState.currentSession # newState.currentSession
            \/ p.currentState.isRunning # newState.isRunning
            \/ p.currentState.isPaused # newState.isPaused
            \/ p.currentState.initialDuration # newState.initialDuration
        checkpoint ==
            IF ~stateChanged THEN p
            ELSE IF newState.isRunning /\ ~newState.isPaused
            THEN CheckpointRunning(p, newState, time)
            ELSE IF newState.isPaused
            THEN CheckpointPaused(p, newState, time)
            ELSE CheckpointReset(p, newState)
    IN Adopt(checkpoint, newState)

\* handleStartPause from the response to its message on
handleStartPause_response(p, action, newState, time) ==
    Adopt(IF action = "start" /\ newState.isRunning
          THEN CheckpointRunning(p, newState, time)
          ELSE IF action = "pause" /\ newState.isPaused
          THEN CheckpointPaused(p, newState, time)
          ELSE p,
          newState)

\* handleReset from the response to its message on
handleReset_response(p, newState) ==
    Adopt(CheckpointReset(p, newState), newState)

\* handleSkip from the response to its message on
handleSkip_response(p, newState) ==
    Adopt(CheckpointReset(p, newState), newState)

\* handleSaveSettings from the response to updateSettings up to its call of
\* updateUI(): the response carries sanitized settings with every key, which
\* mergeSettings of the popup gives back as they are
handleSaveSettings_response(p, newState, s) ==
    [p EXCEPT !.currentState = newState,
              !.hasState = TRUE,
              !.currentSettings = s,
              !.refresh = TRUE]

\* what the popup does with the response { success: true, state } to the
\* message action
Receive(p, action, ts, s, time) ==
    IF ~p.open THEN p
    ELSE CASE action = "getState" ->
                  updateUI_response(p, [ts EXCEPT !.tickInterval = 0], time)
           [] action \in {"start", "pause"} ->
                  handleStartPause_response(p, action, ts, time)
           [] action = "reset" -> handleReset_response(p, ts)
           [] action = "skip" -> handleSkip_response(p, ts)
           [] action = "updateSettings" -> handleSaveSettings_response(p, ts, s)
           [] OTHER -> p

\* getRemainingSeconds, in thousandths of a second
getRemainingSeconds(p, time) ==
    LET cs == p.currentState
        AtLeast0(x) == IF x > 0 THEN x ELSE 0
    IN IF ~p.hasState THEN 0
       ELSE IF cs.isRunning /\ ~cs.isPaused /\ p.checkpointStartAt # 0
       THEN AtLeast0(p.checkpointDuration * MsPerSecond
                     - (p.checkpointElapsed + (time - p.checkpointStartAt)))
       ELSE IF cs.isPaused
       THEN AtLeast0(p.checkpointDuration * MsPerSecond - p.checkpointElapsed)
       ELSE cs.timeRemaining * MsPerSecond

\* sendResponse({ success: true, state: ... }); getState answers with a copy
\* that has no tickInterval.  The popup that awaits the response goes on with
\* it.
respond(g, t, time) ==
    LET resumed == t.resume /\ g.pauseRecord.at # 0
    IN Ret([g EXCEPT !.popup = Receive(g.popup, t.act, g.ts, g.settings, time),
                     !.resp = [action |-> t.act,
                               success |-> TRUE,
                               error |-> "none",
                               fault |-> g.resp.fault,
                               state |-> IF t.act = "getState"
                                         THEN [g.ts EXCEPT !.tickInterval = 0]
                                         ELSE g.ts,
                               late |-> t.late,
                               resume |-> IF resumed THEN g.pauseRecord ELSE NoPause,
                               acked |-> IF t.follows = g.acked THEN g.acked
                                         ELSE NotAcked],
                     !.pauseRecord = IF resumed THEN NoPause ELSE @,
                     !.acked = IF t.act \in {"start", "pause", "reset", "skip"}
                               THEN [set |-> TRUE, state |-> Reported(g.ts)]
                               ELSE @],
           t, <<>>, FALSE)

\* sendResponse({ success: false, error: ... }): the response has no state
Failure(g, t, error) ==
    [NoResponse EXCEPT !.action = t.act, !.error = error, !.fault = g.resp.fault]

\* default: sendResponse({ success: false, error: 'Unknown action' })
unknownAction(g, t) ==
    Ret([g EXCEPT !.resp = Failure(g, t, "Unknown action")], t, <<>>, FALSE)

\* a catch that logs the error and sends nothing
catchError_silent(g, t) ==
    Ret(g, t, <<>>, FALSE)

\* catch (error) of the listener:
\* sendResponse({ success: false, error: error.message || 'Unknown error' })
catchError(g, t) ==
    Ret([g EXCEPT !.resp = Failure(g, t, "error.message")], t, <<>>, FALSE)

\* a showNotification without its try: the rejection of
\* chrome.notifications.create leaves handleTimerComplete; the handler of a
\* message goes on in the catch of the listener, that of a tick or an alarm
\* ends
showNotification_throws(g, t) ==
    Ret(g, [t EXCEPT !.stack = IF t.act \in {"skip", "getState"}
                               THEN <<"catchError">>
                               ELSE <<>>],
        <<>>, FALSE)

\* showNotification, catch (error): the rejection of
\* chrome.notifications.create is logged and the function returns
showNotification_catch(g, t) ==
    Ret(g, t, <<>>, FALSE)

\* popup.js, handleSaveSettings after its own write of the settings key:
\* chrome.runtime.sendMessage({ action: 'updateSettings', settings }), and
\* the case 'updateSettings' of the worker up to its await of
\* chrome.storage.local.set (the settings sent are those the popup keeps)
handleSaveSettings_send(g, t) ==
    LET raw == t.snap.settings
        s == mergeSettings(TRUE, raw, "durations" \notin raw.absent, raw)
    IN Ret([g EXCEPT !.settings = s,
                     !.store.hasSettings = TRUE, !.store.settings = s,
                     !.store.hasDurations = TRUE, !.store.durations = s.durations,
                     !.tracked = Untracked,
                     !.acked = NotAcked],
           [t EXCEPT !.act = "updateSettings", !.snap = EmptyStore],
           <<"updateSettings_fix", "respond">>, TRUE)

\* one block
Exec(label, g, t, time, held) ==
    CASE label = "saveState" -> saveState(g, t)
      [] label = "loadSettings_get" -> loadSettings_get(g, t)
      [] label = "loadSettings_set" -> loadSettings_set(g, t)
      [] label = "loadState_get" -> loadState_get(g, t)
      [] label = "loadState_apply" -> loadState_apply(g, t, time)
      [] label = "scheduleEndAlarm" -> scheduleEndAlarm(g, t, time)
      [] label = "clearEndAlarm" -> clearEndAlarm(g, t)
      [] label = "startTick" -> startTick(g, t, time, held)
      [] label = "handleTimerComplete" -> handleTimerComplete(g, t)
      [] label = "handleTimerComplete_history" -> handleTimerComplete_history(g, t)
      [] label = "updateSessionHistory_set" -> updateSessionHistory_set(g, t)
      [] label = "handleTimerComplete_count" -> handleTimerComplete_count(g, t)
      [] label = "handleTimerComplete_next" -> handleTimerComplete_next(g, t, time)
      [] label = "startTimer" -> startTimer(g, t, time)
      [] label = "startTimer_fresh" -> startTimer_fresh(g, t, time)
      [] label = "pauseTimer" -> pauseTimer(g, t, time)
      [] label = "resetTimer" -> resetTimer(g, t)
      [] label = "getState" -> getState(g, t, time)
      [] label = "updateSettings_fix" -> updateSettings_fix(g, t)
      [] label = "tick" -> tick(g, t, time)
      [] label = "respond" -> respond(g, t, time)
      [] label = "unknownAction" -> unknownAction(g, t)
      [] label = "catchError" -> catchError(g, t)
      [] label = "showNotification_catch" -> showNotification_catch(g, t)
      [] label = "handleSaveSettings_send" -> handleSaveSettings_send(g, t)

\* a task runs block after block until one suspends it or none is left
\* (the result r of a block is bound as an element of a set, so that it is
\* computed once)
RECURSIVE Run(_, _, _, _)
Run(g, t, time, held) ==
    IF t.stack = <<>>
    THEN [g |-> g, t |-> t]
    ELSE CHOOSE out \in
             {IF r.yield THEN [g |-> r.g, t |-> r.t] ELSE Run(r.g, r.t, time, held) :
                 r \in {Exec(Head(t.stack), g, [t EXCEPT !.stack = Tail(@)],
                             time, held)}} : TRUE

----------------------------------------------------------------------------
(* The handlers the browser starts, and the environment.                   *)

\* what each handler runs, first block first
StartProgram == <<"startTimer", "respond">>
PauseProgram == <<"pauseTimer", "respond">>
ResetProgram == <<"loadSettings_get", "loadSettings_set", "resetTimer", "respond">>
SkipProgram == HandleTimerCompleteBlocks \o <<"respond">>
LoadStateBlocks ==
    <<"loadSettings_get", "loadSettings_set", "loadState_get", "loadState_apply">>
GetStateProgram == LoadStateBlocks \o <<"getState", "respond">>
UpdateSettingsProgram == <<"updateSettings_fix", "respond">>
InstalledProgram == <<"loadSettings_get", "loadSettings_set">> \o LoadStateBlocks
AlarmProgram == HandleTimerCompleteBlocks
TickProgram == <<"tick">>
UnknownProgram == <<"unknownAction">>
CatchProgram == <<"catchError">>

\* the settings objects the popup's form sends in this model
QuickSettings ==
    [DEFAULT_SETTINGS EXCEPT
        !.durations = [work |-> 60, shortBreak |-> 60, longBreak |-> 120],
        !.longBreakInterval = 2,
        !.autoStartBreaks = TRUE]
NoLongBreakSettings ==
    [DEFAULT_SETTINGS EXCEPT
        !.longBreakInterval = 0,
        !.autoStartWork = TRUE]
\* an object with nothing but a work duration below the minimum
MalformedSettings ==
    [UndefinedSettings EXCEPT
        !.durations = [work |-> 30, shortBreak |-> NaN, longBreak |-> NaN],
        !.absent = SettingsPaths \ {"durations", "durations.work"}]
SettingsInputs == {QuickSettings, NoLongBreakSettings, MalformedSettings}
\* the durations object an updateDurations message carries in this model:
\* nothing but a work duration below the minimum
DurationsInputs == {MalformedSettings}

\* the clock at the install, and the two steps it advances by
InitialNow == MsPerSecond
ShortStepMs == MsPerSecond \div 2
LongWaitMs == 59 * MsPerSecond
ShortStepsTaken == ((now - InitialNow) % LongWaitMs) \div ShortStepMs
LongWaitsTaken == (now - InitialNow) \div LongWaitMs

Globals ==
    [ts |-> timerState, settings |-> settings, store |-> store, alarm |-> alarm,
     intervals |-> intervals, resp |-> NoResponse, stateLoaded |-> stateLoaded,
     tracked |-> tracked, completion |-> NoCompletion(completion.k),
     pauseRecord |-> pauseRecord, acked |-> acked, popup |-> popup]

\* a pause is on record and no start command was received since
AwaitsResume == pauseRecord.tr >= 0 /\ pauseRecord.at = 0

\* late: a getState sent at or after the deadline of the tracked session;
\* resume: the first start command after a pause; follows: a getState sent
\* after the acknowledgement of a command, and that acknowledgement;
\* spurious: the alarm fired while the timer, its state loaded, was paused or
\* idle
NewTask(act, program) ==
    [act |-> act, stack |-> program, snap |-> EmptyStore,
     late |-> act = "getState" /\ tracked.c >= 0 /\ now >= tracked.deadline,
     expired |-> NotExpired,
     resume |-> act = "start" /\ AwaitsResume,
     follows |-> IF act = "getState" THEN acked ELSE NotAcked,
     spurious |-> act = "alarm" /\ stateLoaded /\ ~Running(timerState)]

\* the interval ids the results of pending storage reads still hold
Held(others) == {t.snap.timerState.tickInterval : t \in BagToSet(others)}

\* the state after a task ran: a task with nothing left to run is gone
Commit(r, others) ==
    /\ timerState' = r.g.ts
    /\ settings' = r.g.settings
    /\ store' = r.g.store
    /\ alarm' = r.g.alarm
    /\ intervals' = r.g.intervals
    /\ resp' = r.g.resp
    /\ stateLoaded' = r.g.stateLoaded
    /\ tracked' = IF r.g.tracked # tracked /\ others # EmptyBag
                  THEN Untracked
                  ELSE r.g.tracked
    /\ completion' = r.g.completion
    /\ pauseRecord' = r.g.pauseRecord
    /\ popup' = r.g.popup
    /\ acked' = IF /\ r.g.acked # acked
                   /\ \E t \in BagToSet(others) : t.act \in Commands
                THEN NotAcked
                ELSE r.g.acked
    /\ tasks' = IF r.t.stack = <<>> THEN others ELSE others (+) SetToBag({r.t})

\* chrome.runtime.onInstalled has run to its end
Installed == \A t \in BagToSet(tasks) : t.act # "onInstalled"

CanStartHandler == Installed /\ BagCardinality(tasks) < MaxTasks

\* a handler starts and runs to its first await
Begin(g, act, program) ==
    \E r \in {Run(g, NewTask(act, program), now, Held(tasks))} : Commit(r, tasks)

\* a command other than getState ends the tracking
Command(g) == [g EXCEPT !.tracked = Untracked, !.acked = NotAcked]

Message(g, act, program) ==
    /\ CanStartHandler
    /\ sent < MaxMessages
    /\ sent' = sent + 1
    /\ Begin(g, act, program)
    /\ UNCHANGED now

Start ==
    Message([Globals EXCEPT !.tracked = [Untracked EXCEPT !.armed = tasks = EmptyBag],
                            !.pauseRecord.at = IF AwaitsResume THEN now ELSE @,
                            !.acked = NotAcked],
            "start", StartProgram)
Pause == Message(Command(Globals), "pause", PauseProgram)
Reset == Message(Command(Globals), "reset", ResetProgram)
Skip == Message(Command(Globals), "skip", SkipProgram)
GetState == Message(Globals, "getState", GetStateProgram)

\* case 'updateSettings' up to its await of chrome.storage.local.set
UpdateSettingsTo(raw) ==
    LET s == mergeSettings(TRUE, raw, "durations" \notin raw.absent, raw)
        g == [Command(Globals) EXCEPT
                 !.settings = s,
                 !.store.hasSettings = TRUE, !.store.settings = s,
                 !.store.hasDurations = TRUE, !.store.durations = s.durations]
    IN /\ CanStartHandler
       /\ sent < MaxMessages
       /\ sent' = sent + 1
       /\ Commit([g |-> g, t |-> NewTask("updateSettings", UpdateSettingsProgram)],
                 tasks)
       /\ UNCHANGED now

UpdateSettings == \E raw \in SettingsInputs : UpdateSettingsTo(raw)

\* case 'updateDurations' up to its await of chrome.storage.local.set:
\* mergeSettings({ ...settings, durations: request.durations }, request.durations)
UpdateDurations ==
    \E raw \in DurationsInputs :
        LET saved == [settings EXCEPT !.durations = raw.durations,
                                      !.absent = raw.absent \cap
                                          {"durations", "durations.work",
                                           "durations.shortBreak",
                                           "durations.longBreak"}]
            s == mergeSettings(TRUE, saved, "durations" \notin raw.absent, raw)
            g == [Command(Globals) EXCEPT
                     !.settings = s,
                     !.store.hasSettings = TRUE, !.store.settings = s,
                     !.store.hasDurations = TRUE, !.store.durations = s.durations]
        IN /\ CanStartHandler
           /\ sent < MaxMessages
           /\ sent' = sent + 1
           /\ Commit([g |-> g, t |-> NewTask("updateDurations", UpdateSettingsProgram)],
                     tasks)
           /\ UNCHANGED now

\* a message whose action is none of the listener's cases
Unknown == Message([Globals EXCEPT !.resp.fault = "unknown"], "unknown", UnknownProgram)

\* the calls of chrome.alarms a command awaits outside any try of its own
AlarmCalls == {"scheduleEndAlarm", "clearEndAlarm"}

\* chrome.alarms.create or chrome.alarms.clear rejects: the command that awaits
\* it goes on in the catch of the listener
Reject ==
    \E t \in BagToSet(tasks) :
        LET others == tasks (-) SetToBag({t})
            g == [Globals EXCEPT !.resp.fault = "thrown"]
        IN /\ t.act \in {"start", "pause", "reset", "skip"}
           /\ t.stack # <<>>
           /\ Head(t.stack) \in AlarmCalls
           /\ Head(t.stack) = "scheduleEndAlarm"
                  => Running(timerState) /\ timerState.startTime # 0
           /\ \E r \in {Run(g, [t EXCEPT !.stack = CatchProgram], now, Held(others))} :
                  Commit(r, others)
           /\ UNCHANGED <<now, sent>>

\* chrome.notifications.create rejects: the handler that awaits
\* showNotification in handleTimerComplete goes on in showNotification's catch
NotificationFails ==
    \E t \in BagToSet(tasks) :
        LET others == tasks (-) SetToBag({t})
            g == [Globals EXCEPT !.resp.fault = "dispatch"]
        IN /\ t.stack # <<>>
           /\ Head(t.stack) = "handleTimerComplete_history"
           /\ \E r \in {Run(g, [t EXCEPT !.stack = <<"showNotification_catch">> \o @],
                            now, Held(others))} :
                  Commit(r, others)
           /\ UNCHANGED <<now, sent>>

\* the interval fires: its callback runs, the timer is due a period later
TickFire ==
    \E iv \in intervals :
        /\ CanStartHandler
        /\ now >= iv.due
        /\ Begin([Globals EXCEPT !.intervals =
                      (intervals \ {iv}) \cup {[iv EXCEPT !.due = now + TickPeriodMs]}],
                 "tick", TickProgram)
        /\ UNCHANGED <<now, sent>>

\* chrome.alarms.onAlarm: the alarm fires once, at or after its deadline
AlarmFire ==
    /\ CanStartHandler
    /\ alarm # 0
    /\ now >= alarm
    /\ Begin([Globals EXCEPT !.alarm = 0], "alarm", AlarmProgram)
    /\ UNCHANGED <<now, sent>>

\* the event loop resumes a suspended handler
Resume ==
    \E t \in BagToSet(tasks) :
        LET others == tasks (-) SetToBag({t})
        IN /\ \E r \in {Run(Globals, t, now, Held(others))} : Commit(r, others)
           /\ UNCHANGED <<now, sent>>

\* The browser stops the idle service worker; the module is evaluated anew
\* for the next event.  Its variables and timers are gone; the store and the
\* alarm are the browser's and stay.
Unload ==
    /\ Installed
    /\ tasks = EmptyBag
    /\ timerState' = DefaultTimerState
    /\ settings' = DEFAULT_SETTINGS
    /\ intervals' = {}
    /\ stateLoaded' = FALSE
    /\ tracked' = IF tracked.c >= 0 THEN [tracked EXCEPT !.reloaded = TRUE] ELSE Untracked
    /\ resp' = NoResponse
    /\ completion' = NoCompletion(completion.k)
    /\ UNCHANGED <<now, store, alarm, tasks, sent, pauseRecord, acked, popup>>

\* half a second passes
ShortStep ==
    /\ ShortStepsTaken < MaxShortSteps
    /\ now' = now + ShortStepMs
    /\ resp' = NoResponse
    /\ completion' = NoCompletion(completion.k)
    /\ UNCHANGED <<timerState, settings, store, alarm, intervals, tasks,
                   sent, stateLoaded, tracked, pauseRecord, acked, popup>>

\* most of a minute passes while no handler is suspended
LongWait ==
    /\ LongWaitsTaken < MaxLongWaits
    /\ tasks = EmptyBag
    /\ now' = now + LongWaitMs
    /\ resp' = NoResponse
    /\ completion' = NoCompletion(completion.k)
    /\ UNCHANGED <<timerState, settings, store, alarm, intervals, tasks,
                   sent, stateLoaded, tracked, pauseRecord, acked, popup>>

\* the extension was just installed: the module is evaluated, the store is
\* empty, and the onInstalled listener has run to its first await
Init ==
    /\ now = InitialNow
    /\ LET r == Run([ts |-> DefaultTimerState, settings |-> DEFAULT_SETTINGS,
                     store |-> EmptyStore, alarm |-> 0, intervals |-> {},
                     resp |-> NoResponse, stateLoaded |-> FALSE,
                     tracked |-> Untracked, completion |-> NoCompletion(0),
                     pauseRecord |-> NoPause, acked |-> NotAcked,
                     popup |-> NoPopup],
                    [act |-> "onInstalled", stack |-> InstalledProgram,
                     snap |-> EmptyStore, late |-> FALSE, expired |-> NotExpired,
                     resume |-> FALSE, follows |-> NotAcked, spurious |-> FALSE],
                    InitialNow, {})
       IN /\ timerState = r.g.ts
          /\ settings = r.g.settings
          /\ store = r.g.store
          /\ alarm = r.g.alarm
          /\ intervals = r.g.intervals
          /\ resp = r.g.resp
          /\ stateLoaded = r.g.stateLoaded
          /\ tracked = r.g.tracked
          /\ completion = r.g.completion
          /\ pauseRecord = r.g.pauseRecord
          /\ acked = r.g.acked
          /\ popup = r.g.popup
          /\ tasks = SetToBag({r.t})
    /\ sent = 0

Next ==
    \/ Start
    \/ Pause
    \/ Reset
    \/ Skip
    \/ GetState
    \/ UpdateSettings
    \/ UpdateDurations
    \/ TickFire
    \/ AlarmFire
    \/ Resume
    \/ Unload
    \/ ShortStep
    \/ LongWait

Spec == Init /\ [][Next]_vars

\* half a second passes while no handler is suspended
QuietStep == tasks = EmptyBag /\ ShortStep

\* What the browser guarantees of the worker's scheduling: time passes, a due
\* alarm fires, a due interval of a live worker fires, and a suspended handler
\* is resumed.  A handler is a finite program and new handlers need a message
\* or the clock, so the last guarantee is stated as: again and again no
\* handler is suspended.  Nothing obliges the popup to send a message or the
\* browser to stop or not to stop the idle worker.
Fairness ==
    /\ WF_vars(QuietStep)
    /\ WF_vars(LongWait)
    /\ WF_vars(AlarmFire)
    /\ WF_vars(TickFire)
    /\ []<>(tasks = EmptyBag)

\* the popup saves the one-minute durations
SaveQuickSettings == UpdateSettingsTo(QuickSettings)

\* the program while the popup sends no pause, reset or skip and saves no
\* other settings, observed at the instants at which no handler is suspended
LiveNext ==
    \/ Start
    \/ GetState
    \/ SaveQuickSettings
    \/ TickFire
    \/ AlarmFire
    \/ Resume
    \/ Unload
    \/ QuietStep
    \/ LongWait

LiveSpec == Init /\ [][LiveNext]_vars /\ Fairness

\* the program when the popup also sends messages the listener does not know
\* and the browser may reject a call of chrome.alarms or of
\* chrome.notifications; the clock advances while no handler is suspended
FaultNext ==
    \/ Start
    \/ Pause
    \/ Reset
    \/ Skip
    \/ GetState
    \/ SaveQuickSettings
    \/ Unknown
    \/ Reject
    \/ NotificationFails
    \/ TickFire
    \/ AlarmFire
    \/ Resume
    \/ Unload
    \/ QuietStep
    \/ LongWait

FaultSpec == Init /\ [][FaultNext]_vars

\* mergeSettings(request.settings, request.settings?.durations), the
\* sanitization of a settings object; has: the object is not undefined
sanitize(has, x) == mergeSettings(has, x, has /\ "durations" \notin x.absent, x)

\* the values of the numeric fields of the objects sanitized in this model:
\* not a number, below, at, between and above the bounds
RawDurations == {NaN, 30, 60, 90, 1800, 3600, 3601}
RawShortBreaks == {60, 1800, 1801}
RawLongBreaks == {900, 3601}
RawIntervals == {NaN, 0, 5, 12, 13}
\* the numeric fields that have a fractional part
RawFractions ==
    {{}, {"durations.work"}, {"longBreakInterval"},
     {"durations.shortBreak", "longBreakInterval"}, NumericPaths}
\* the keys that are missing: none, one duration, the durations object, the
\* interval, the notifications, all (the empty object)
RawAbsents ==
    {{}, {"durations.work"}, {"durations"}, {"longBreakInterval"},
     {"notifications"}, SettingsPaths}

\* the settings objects sanitized in this model
RawSettings ==
    {[DEFAULT_SETTINGS EXCEPT
         !.durations = [work |-> w, shortBreak |-> sb, longBreak |-> lb],
         !.longBreakInterval = i,
         !.autoStartBreaks = auto,
         !.notifications.soundType = sound,
         !.fraction = f,
         !.absent = a] :
        w \in RawDurations, sb \in RawShortBreaks, lb \in RawLongBreaks,
        i \in RawIntervals, auto \in BOOLEAN, sound \in {"bell", "siren"},
        f \in RawFractions, a \in RawAbsents}

\* the times a settings object is sanitized
MaxPasses == 3

\* The sanitization alone: store.settings is the object given (undefined when
\* hasSettings is false), settings the result of the passes made so far and
\* sent their number.
SanitizeInit ==
    /\ \E has \in BOOLEAN :
           \E raw \in IF has THEN RawSettings ELSE {DEFAULT_SETTINGS} :
               store = [EmptyStore EXCEPT !.hasSettings = has, !.settings = raw]
    /\ settings = DEFAULT_SETTINGS
    /\ sent = 0
    /\ now = InitialNow
    /\ timerState = DefaultTimerState
    /\ alarm = 0
    /\ intervals = {}
    /\ tasks = EmptyBag
    /\ resp = NoResponse
    /\ stateLoaded = FALSE
    /\ tracked = Untracked
    /\ completion = NoCompletion(0)
    /\ pauseRecord = NoPause
    /\ acked = NotAcked
    /\ popup = NoPopup

\* the object given is sanitized
SanitizeGiven ==
    /\ sent = 0
    /\ settings' = sanitize(store.hasSettings, store.settings)
    /\ sent' = 1
    /\ UNCHANGED <<now, timerState, store, alarm, intervals, tasks, resp,
                   stateLoaded, tracked, completion, pauseRecord, acked, popup>>

\* the result is sanitized again
SanitizeAgain ==
    /\ sent \in 1..(MaxPasses - 1)
    /\ settings' = sanitize(TRUE, settings)
    /\ sent' = sent + 1
    /\ UNCHANGED <<now, timerState, store, alarm, intervals, tasks, resp,
                   stateLoaded, tracked, completion, pauseRecord, acked, popup>>

SanitizeNext ==
    \/ SanitizeGiven
    \/ SanitizeAgain

SanitizeSpec == SanitizeInit /\ [][SanitizeNext]_vars

----------------------------------------------------------------------------
(* The claims of the specification.                                        *)

\* C1: in every reachable state (isRunning, isPaused) is one of (false,false),
\* (true,false), (true,true); isRunning = false with isPaused = true never
\* occurs, neither in the worker's timerState nor in the persisted copy.
C1_ValidStatePair ==
    /\ ~(~timerState.isRunning /\ timerState.isPaused)
    /\ store.hasState => ~(~store.timerState.isRunning /\ store.timerState.isPaused)

\* C1 witness: a paused timer was completed by a skip and is idle again,
\* while the persisted copy still shows the pause
C1_Witness ==
    /\ ~timerState.isRunning /\ ~timerState.isPaused
    /\ store.hasState /\ store.timerState.isRunning /\ store.timerState.isPaused
    /\ \E t \in BagToSet(tasks) : t.act = "skip"
\* Math.max(0, initialDuration - elapsedSeconds) of timerState at the clock
Law(ts) == Remaining(ts, now)

\* C2 as stated: in every reachable state where isRunning && !isPaused,
\* timeRemaining == max(0, initialDuration - floor((now - startTime -
\* totalPausedTime)/1000)) for the current clock value now, also between ticks.
C2_LawAtAllTimes ==
    Running(timerState) => timerState.timeRemaining = Law(timerState)

\* C2 amended: every step of the worker that changes timeRemaining and leaves
\* the timer running and not paused (a tick, an auto-start, a fresh start, a
\* reload of the persisted state) sets it to the value of the law at the
\* current clock; between such steps the field keeps the value last written.
C2_LawWhenRecomputed ==
    [][Running(timerState') /\ timerState'.timeRemaining # timerState.timeRemaining
         => timerState'.timeRemaining = Remaining(timerState', now')]_vars

\* C2 witness: a tick has recomputed timeRemaining and another second has
\* passed since without a tick
C2_Witness ==
    /\ Running(timerState)
    /\ timerState.timeRemaining < timerState.initialDuration
    /\ timerState.timeRemaining > Law(timerState)

\* A work session a start command began with cycleCount = tracked.c is the
\* last thing the popup asked for, the worker has not been unloaded since, and
\* the session that follows it cannot have ended yet.
TrackedLive ==
    /\ tracked.c >= 0
    /\ ~tracked.reloaded
    /\ now < tracked.deadline + MinDuration * MsPerSecond

\* timerState still is the tracked work session
TrackedPending(ts) ==
    /\ ts.currentSession = WORK
    /\ ts.cycleCount = tracked.c
    /\ ts.isRunning

\* timerState is what one completion of the tracked work session leaves
TrackedCompletedOnce(ts) ==
    LET next == NextSession(WORK, tracked.c + 1, settings)
        d == getSessionDuration(settings, next)
    IN /\ ts.currentSession = next
       /\ ts.cycleCount = tracked.c + 1
       /\ ts.isRunning = ShouldAutostart(next, settings)
       /\ ts.timeRemaining <= d
       /\ ~ts.isRunning => ts.timeRemaining = d

\* C3: when the tick and the completion alarm (or a getState reload) both
\* trigger the completion of one zero-crossing, the second trigger is a
\* no-op: once every handler has run to its end, currentSession, cycleCount,
\* timeRemaining and isRunning are what a single completion produces.
C3_SecondTriggerNoOp ==
    (TrackedLive /\ tasks = EmptyBag) =>
        TrackedPending(timerState) \/ TrackedCompletedOnce(timerState)

\* C4: the completion handler invoked twice for one ended work session, one
\* after the other or interleaved at its awaits, increments cycleCount by
\* exactly 1 and adds exactly 1 to the SessionHistory count of today.
C4_CountedOnce ==
    TrackedLive =>
        /\ timerState.cycleCount <= tracked.c + 1
        /\ store.timerState.cycleCount <= tracked.c + 1
        /\ store.sessionHistory <= tracked.h + 1

\* what a command or an alarm acts on: the session, the count, the flags
\* and the timestamps of a TimerState
Core(ts) ==
    <<ts.currentSession, ts.cycleCount, ts.isRunning, ts.isPaused,
      ts.startTime, ts.pausedAt, ts.totalPausedTime>>

\* C5: after the worker is unloaded and reactivated, TimerState is reloaded
\* from the store before any command or alarm is processed: a start, pause,
\* skip or alarm handler that begins on a worker that has not loaded the
\* state since its module was evaluated finds in timerState the persisted
\* session, count, flags and timestamps, not the defaults of the module.
C5_OperatesOnPersisted ==
    [][(/\ ~stateLoaded
        /\ tasks = EmptyBag
        /\ \E t \in BagToSet(tasks') : t.act \in {"start", "pause", "skip", "alarm"})
       => Core(timerState) = Core(store.timerState)]_vars

\* timerState is the completion transition applied once to a session of kind
\* session that ended with cycleCount = c
CompletionApplied(ts, session, c) ==
    LET c1 == IF session = WORK THEN c + 1 ELSE c
        next == NextSession(session, c1, settings)
        d == getSessionDuration(settings, next)
    IN /\ ts.currentSession = next
       /\ ts.cycleCount = c1
       /\ ts.timeRemaining >= 0
       /\ ts.timeRemaining <= d
       /\ ~ts.isRunning => ts.timeRemaining = d

\* C6: when the persisted state is Running and the worker is reloaded after
\* more than the remaining time, the state after loadState (the handler that
\* called it goes on with its next statement) has the completion transition
\* applied: currentSession is the next session, timeRemaining its full
\* duration, cycleCount incremented after work, and never a negative time.
C6_ReloadAppliesCompletion ==
    \A t \in BagToSet(tasks) :
        (t.expired.c >= 0 /\ t.stack # <<>> /\ Head(t.stack) = "getState")
            => CompletionApplied(timerState, t.expired.session, t.expired.c)

\* C7: after a work session started with cycleCount = c and no pause, a
\* getState issued at or after initialDuration seconds reports it completed
\* exactly once: currentSession is the break of the cycle rule, cycleCount is
\* c + 1 and, the break not auto-started, timeRemaining is its full duration,
\* whichever of the tick, the alarm and the reload saw the zero-crossing.
C7_LateGetStateSeesOneCompletion ==
    (/\ resp.action = "getState"
     /\ resp.late
     /\ tracked.c >= 0
     /\ now < tracked.deadline + MinDuration * MsPerSecond)
        => CompletionApplied(resp.state, WORK, tracked.c)

\* C8: the worker processes one command to completion before it accepts the
\* next: no handler mutates TimerState while another handler is suspended at
\* an await.  A step that changes timerState is taken by a handler that
\* starts while none is suspended, or by the only suspended handler.
C8_OneHandlerAtATime ==
    [][timerState' # timerState =>
         IF tasks \sqsubseteq tasks'
         THEN tasks = EmptyBag
         ELSE BagCardinality(tasks) = 1]_vars

\* C9: with longBreakInterval = N > 0 the k-th work completion since the last
\* reset transitions to longBreak when k mod N = 0 and to shortBreak
\* otherwise; with N = 0 no completion transitions to longBreak; the
\* completion of a break transitions to work.
C9_CycleRule ==
    completion.to # "none" =>
        IF completion.counted
        THEN completion.to =
                 IF settings.longBreakInterval > 0
                    /\ completion.k % settings.longBreakInterval = 0
                 THEN LONG_BREAK
                 ELSE SHORT_BREAK
        ELSE completion.to = WORK

\* C10: in every reachable state with isRunning = false, timeRemaining is
\* the duration of currentSession in the current settings of the worker.
C10_IdleShowsFullDuration ==
    ~timerState.isRunning =>
        timerState.timeRemaining = getSessionDuration(settings, timerState.currentSession)

\* C10 amended: in every reachable state with isRunning = false where no
\* handler is suspended at an await, timeRemaining is the duration of
\* currentSession in the current settings of the worker.
C10_IdleShowsFullDurationAtRest ==
    (tasks = EmptyBag /\ ~timerState.isRunning) =>
        timerState.timeRemaining =
            getSessionDuration(settings, timerState.currentSession)

\* C10 witness: a break a skip began shows the duration that an
\* updateSettings gave it afterwards, the handlers have run to their end
C10_Witness ==
    /\ tasks = EmptyBag
    /\ ~timerState.isRunning
    /\ timerState.currentSession = SHORT_BREAK
    /\ settings.durations.shortBreak # DEFAULT_SETTINGS.durations.shortBreak
    /\ timerState.timeRemaining = settings.durations.shortBreak

\* the moment the start command received at time at set the timer of ts going
ResumedAt(ts, at) == IF ts.startTime > at THEN ts.startTime ELSE at

\* C11: pausing a running timer and then resuming it, after any paused
\* interval, leaves initialDuration unchanged, and the elapsed-time law
\* immediately after the resume gives the timeRemaining that the pause
\* snapshotted; paused time is not counted as elapsed.  The state that the
\* first start command after a pause is acknowledged with is such a state.
C11_ResumeKeepsSnapshot ==
    (resp.action = "start" /\ resp.resume.tr >= 0) =>
        /\ resp.state.initialDuration = resp.resume.d
        /\ Remaining(resp.state, ResumedAt(resp.state, resp.resume.at))
               = resp.resume.tr

\* C12: after any completion, natural or by skip, isRunning is autoStartWork
\* when the next session is work and autoStartBreaks otherwise; when the
\* session auto-starts, startTime is the time of the completion,
\* totalPausedTime is 0, pausedAt is none and timeRemaining = initialDuration
\* = the duration of the next session.
C12_AutostartAfterCompletion ==
    completion.to # "none" =>
        /\ timerState.currentSession = completion.to
        /\ timerState.isRunning =
               IF completion.to = WORK THEN settings.autoStartWork
                                       ELSE settings.autoStartBreaks
        /\ timerState.isRunning =>
               /\ ~timerState.isPaused
               /\ timerState.startTime = now
               /\ timerState.totalPausedTime = 0
               /\ timerState.pausedAt = 0
               /\ timerState.timeRemaining = timerState.initialDuration
               /\ timerState.initialDuration =
                      getSessionDuration(settings, completion.to)

\* C12 witness: a skip during a short break, autoStartWork on, has just
\* started the work session
C12_Witness ==
    /\ completion.to = WORK
    /\ settings.autoStartWork
    /\ timerState.isRunning
    /\ timerState.startTime = now
    /\ \E t \in BagToSet(tasks) : t.act = "skip"

\* the handlers of updateSettings and updateDurations that are suspended
SettingsHandlers(b) ==
    LET S == {t \in BagToSet(b) : t.act \in {"updateSettings", "updateDurations"}}
    IN [t \in S |-> CopiesIn(t, b)]

\* C13: updateSettings or updateDurations, and any reload of the settings,
\* while a session is running or paused leaves that session's
\* initialDuration, timeRemaining, startTime and totalPausedTime unchanged:
\* no step of a handler that assigns new settings, and no step of the handler
\* of one of the two messages, changes them while isRunning is set.
C13_SettingsLeaveSessionAlone ==
    [][(/\ timerState.isRunning
        /\ \/ settings' # settings /\ tasks' # tasks
           \/ SettingsHandlers(tasks') # SettingsHandlers(tasks))
       => /\ timerState'.initialDuration = timerState.initialDuration
          /\ timerState'.timeRemaining = timerState.timeRemaining
          /\ timerState'.startTime = timerState.startTime
          /\ timerState'.totalPausedTime = timerState.totalPausedTime]_vars

\* C13 witness: a settings message was handled to its end while the timer
\* runs, and the session keeps a duration that is no longer the one of the
\* settings
C13_Witness ==
    /\ resp.action \in {"updateSettings", "updateDurations"}
    /\ resp.state.isRunning
    /\ resp.state.startTime # 0
    /\ resp.state.initialDuration #
           getSessionDuration(settings, resp.state.currentSession)

\* C14: a state snapshot returned to the popup reflects the effects of every
\* command already acknowledged to it: after start, pause, reset or skip was
\* acknowledged, the answer to a getState sent afterwards reports the
\* isRunning, isPaused, currentSession, cycleCount, startTime,
\* initialDuration and totalPausedTime of the acknowledged state, unless a
\* session completed or another command was sent in between.
C14_GetStateReflectsAcknowledged ==
    (resp.action = "getState" /\ resp.acked.set) =>
        Reported(resp.state) = resp.acked.state

\* C15: when a pause or reset command has been acknowledged (and the state it
\* is acknowledged with is paused or idle), the tick scheduler and the
\* completion alarm are cancelled: no tick interval is active and no
\* 'pomodoro-end' alarm is pending.
C15_AcknowledgedMeansCancelled ==
    (resp.action \in {"pause", "reset"} /\ ~Running(resp.state)) =>
        /\ intervals = {}
        /\ alarm = 0

\* the suspended handlers of an alarm that fired while the timer was paused
\* or idle
SpuriousAlarms(b) ==
    LET S == {t \in BagToSet(b) : t.spurious}
    IN [t \in S |-> CopiesIn(t, b)]

\* C16: correctness does not depend on the cancellation of the alarm: when
\* the 'pomodoro-end' alarm fires while the timer is paused or idle, no step
\* of its handler changes TimerState, the persisted TimerState or
\* SessionHistory.
C16_SpuriousAlarmChangesNothing ==
    [][SpuriousAlarms(tasks') # SpuriousAlarms(tasks) =>
         /\ timerState' = timerState
         /\ store'.timerState = store.timerState
         /\ store'.sessionHistory = store.sessionHistory]_vars

\* the instant at which the elapsed-time law first gives 0
Deadline(ts) == ts.startTime + ts.totalPausedTime + ts.initialDuration * MsPerSecond

\* handleTimerComplete has been called and not yet run to its end, or has
\* just made its transition
CompletionInvoked ==
    \/ completion.to # "none"
    \/ \E t \in BagToSet(tasks) :
           \E i \in 1..Len(t.stack) : t.stack[i] = "handleTimerComplete_next"

\* the persisted timer runs, its deadline has passed, no handler is suspended
\* and neither the alarm nor an interval is set for a later instant
Overdue ==
    /\ store.hasState
    /\ Running(store.timerState)
    /\ Deadline(store.timerState) <= now
    /\ tasks = EmptyBag
    /\ alarm # 0 => alarm <= now
    /\ \A iv \in intervals : iv.due <= now

\* C17: a running timer that is not paused, reset or skipped eventually has
\* its completion handler invoked, by the tick or by the alarm, without any
\* message of the popup: once the persisted timer runs past its deadline with
\* nothing left to wait for, either handleTimerComplete is invoked or the
\* popup sends another message.
C17_RunningTimerCompletes ==
    \A n \in 0..MaxMessages :
        (Overdue /\ sent = n) ~> (CompletionInvoked \/ sent > n)

\* C18: a message with an unknown action is answered {success: false, error}
\* and leaves TimerState, Settings and the store unchanged; an error thrown
\* while a command is handled is answered {success: false, error} for that
\* command.
C18_FaultsAnswered ==
    [][/\ resp'.fault = "unknown" =>
             /\ resp'.action = "unknown"
             /\ ~resp'.success
             /\ resp'.error = "Unknown action"
             /\ timerState' = timerState
             /\ settings' = settings
             /\ store' = store
       /\ resp'.fault = "thrown" =>
             /\ resp'.action \in Commands
             /\ ~resp'.success
             /\ resp'.error # "none"]_vars

\* an unknown message was answered while the timer runs and a handler is
\* suspended
C18_Witness ==
    /\ resp.fault = "unknown"
    /\ resp.error = "Unknown action"
    /\ Running(timerState)
    /\ tasks # EmptyBag

\* C19: sanitization is idempotent: sanitizing the result of a sanitization
\* of any object, undefined, empty or malformed, gives it back unchanged.
C19_SanitizeIdempotent ==
    [][sent >= 1 => settings' = settings]_vars

\* a second pass was made on the result of an object that the first pass
\* changed in a duration and whose interval had a fractional part
C19_Witness ==
    /\ sent = 2
    /\ store.hasSettings
    /\ settings.durations # store.settings.durations
    /\ "longBreakInterval" \in store.settings.fraction
    /\ "longBreakInterval" \notin store.settings.absent

\* v, or v and a half, lies in [min, max]
Within(v, half, min, max) ==
    v # NaN /\ v >= min /\ (IF half THEN v < max ELSE v <= max)

\* the sanitized field is the field given when that is a number within the
\* bounds (rounded down when floor is set), and the default otherwise
KeptOrDefault(obj, path, given, out, default, min, max, floor) ==
    LET half == path \in store.settings.fraction
    IN IF /\ store.hasSettings
          /\ Has(store.settings, obj, path)
          /\ Within(given, half, min, max)
       THEN out = given /\ (path \in settings.fraction <=> half /\ ~floor)
       ELSE out = default /\ path \notin settings.fraction

\* C20: for every input the sanitized settings have work and longBreak in
\* [60, 3600], shortBreak in [60, 1800] and longBreakInterval an integer in
\* [0, 12]; a numeric field out of range or not a finite number is replaced
\* by the default of the field, never by the nearest bound; every field of
\* the result is defined.
C20_SanitizedWithinBounds ==
    sent >= 1 =>
        LET D == DEFAULT_SETTINGS
            given == store.settings
            half(path) == path \in settings.fraction
        IN /\ Within(settings.durations.work, half("durations.work"),
                     MinDuration, MaxWorkDuration)
           /\ Within(settings.durations.longBreak, half("durations.longBreak"),
                     MinDuration, MaxLongBreakDuration)
           /\ Within(settings.durations.shortBreak, half("durations.shortBreak"),
                     MinDuration, MaxShortBreakDuration)
           /\ settings.longBreakInterval \in MinLongBreakInterval..MaxLongBreakInterval
           /\ "longBreakInterval" \notin settings.fraction
           /\ settings.absent = {}
           /\ sent = 1 =>
                 /\ KeptOrDefault("durations", "durations.work", given.durations.work,
                                  settings.durations.work, D.durations.work,
                                  MinDuration, MaxWorkDuration, FALSE)
                 /\ KeptOrDefault("durations", "durations.shortBreak",
                                  given.durations.shortBreak,
                                  settings.durations.shortBreak, D.durations.shortBreak,
                                  MinDuration, MaxShortBreakDuration, FALSE)
                 /\ KeptOrDefault("durations", "durations.longBreak",
                                  given.durations.longBreak,
                                  settings.durations.longBreak, D.durations.longBreak,
                                  MinDuration, MaxLongBreakDuration, FALSE)
                 /\ KeptOrDefault("longBreakInterval", "longBreakInterval",
                                  given.longBreakInterval,
                                  settings.longBreakInterval, D.longBreakInterval,
                                  MinLongBreakInterval, MaxLongBreakInterval, TRUE)

\* an object with a work duration above the maximum and an interval of five
\* and a half was sanitized
C20_Witness ==
    /\ sent = 1
    /\ store.hasSettings
    /\ store.settings.absent = {}
    /\ store.settings.durations.work = 3601
    /\ settings.durations.work = DEFAULT_SETTINGS.durations.work
    /\ store.settings.longBreakInterval = 5
    /\ "longBreakInterval" \in store.settings.fraction
    /\ settings.longBreakInterval = 5

----------------------------------------------------------------------------
(* The last seconds of a session.  The popup has saved the one-minute      *)
(* durations and started the work session at the install; 59 seconds have  *)
(* passed and the tick of that instant has saved its countdown.  From      *)
(* there the clock advances by half seconds past the deadline, the popup   *)
(* sends start, pause and getState, and the worker stays loaded.           *)

\* the half seconds the clock advances in the last seconds of a session
MaxHalfSeconds == 4

NearEndNow == InitialNow + LongWaitMs
HalfSecondsTaken == (now - NearEndNow) \div ShortStepMs

\* timerState 59 seconds after startTimer began the one-minute work session
NearEndTimerState ==
    LET started == [DefaultTimerState EXCEPT
                       !.isRunning = TRUE,
                       !.startTime = InitialNow,
                       !.initialDuration =
                           sanitize(TRUE, QuickSettings).durations.work,
                       !.tickInterval = 1]
    IN [started EXCEPT !.timeRemaining = Remaining(started, NearEndNow)]

NearEndWorker ==
    LET s == sanitize(TRUE, QuickSettings)
    IN /\ now = NearEndNow
       /\ timerState = NearEndTimerState
       /\ settings = s
       /\ store = [hasSettings |-> TRUE, settings |-> s,
                   hasDurations |-> TRUE, durations |-> s.durations,
                   hasState |-> TRUE, timerState |-> NearEndTimerState,
                   sessionHistory |-> 0]
       /\ alarm = InitialNow + s.durations.work * MsPerSecond
       /\ intervals = {[id |-> 1, due |-> NearEndNow + TickPeriodMs]}
       /\ tasks = EmptyBag
       /\ resp = NoResponse
       /\ sent = 0
       /\ stateLoaded = TRUE
       /\ tracked = Untracked
       /\ completion = NoCompletion(0)
       /\ pauseRecord = NoPause
       /\ acked = [set |-> TRUE, state |-> Reported(NearEndTimerState)]

\* the worker at that instant, the display of the popup not observed
NearEndInit == NearEndWorker /\ popup = NoPopup

\* half a second passes
HalfSecond ==
    /\ HalfSecondsTaken < MaxHalfSeconds
    /\ now' = now + ShortStepMs
    /\ resp' = NoResponse
    /\ completion' = NoCompletion(completion.k)
    /\ UNCHANGED <<timerState, settings, store, alarm, intervals, tasks,
                   sent, stateLoaded, tracked, pauseRecord, acked, popup>>

NearEndNext ==
    \/ Start
    \/ Pause
    \/ GetState
    \/ TickFire
    \/ AlarmFire
    \/ Resume
    \/ HalfSecond

NearEndSpec == NearEndInit /\ [][NearEndNext]_vars

----------------------------------------------------------------------------
(* The commands, one by one.                                               *)

\* this step resumes a handler that was suspended before the block label
Resumes(label) ==
    \E t \in BagToSet(tasks) :
        /\ t.stack # <<>>
        /\ Head(t.stack) = label
        /\ CopiesIn(t, tasks') < CopiesIn(t, tasks)

\* C21: a start command received while the timer is idle sets isRunning,
\* leaves isPaused false, sets startTime to now, totalPausedTime to 0 and
\* initialDuration = timeRemaining = the duration of currentSession under the
\* current settings, and leaves currentSession and cycleCount unchanged.
\* (Only a start received while idle reaches the assignments of the fresh
\* start.)
C21_StartFromIdle ==
    [][Resumes("startTimer_fresh") =>
         /\ timerState'.isRunning
         /\ ~timerState'.isPaused
         /\ timerState'.startTime = now
         /\ timerState'.totalPausedTime = 0
         /\ timerState'.initialDuration = timerState'.timeRemaining
         /\ timerState'.timeRemaining =
                getSessionDuration(settings', timerState'.currentSession)
         /\ timerState'.currentSession = timerState.currentSession
         /\ timerState'.cycleCount = timerState.cycleCount]_vars

\* this step receives a message with the action act: it is answered at once,
\* or its handler is suspended
Receives(act) ==
    /\ sent' = sent + 1
    /\ \/ resp'.action = act
       \/ \E t \in BagToSet(tasks') :
              t.act = act /\ CopiesIn(t, tasks') > CopiesIn(t, tasks)

\* C22: start while the timer runs (not paused) is a no-op and pause while
\* it is idle or already paused is a no-op: TimerState, the persisted state,
\* the deadline of the pending alarm and the tick scheduler are left
\* unchanged, and the command is answered at once.
C22_NoOpCommands ==
    [][(\/ Receives("start") /\ Running(timerState)
        \/ Receives("pause") /\ (~timerState.isRunning \/ timerState.isPaused))
       => /\ timerState' = timerState
          /\ store' = store
          /\ alarm' = alarm
          /\ intervals' = intervals
          /\ tasks' = tasks
          /\ resp'.success]_vars

\* C22 witness: the first message after the install is a pause; it was
\* answered with the idle state
C22_Witness ==
    /\ sent = 1
    /\ resp.action = "pause"
    /\ resp.success
    /\ ~resp.state.isRunning
    /\ ~resp.state.isPaused
    /\ timerState = store.timerState

\* both states belong to the same run of a session: the timer is started and
\* its start time, session and count are the same
SameRun(a, b) ==
    /\ a.isRunning
    /\ b.isRunning
    /\ a.startTime = b.startTime
    /\ a.currentSession = b.currentSession
    /\ a.cycleCount = b.cycleCount

\* C23: start while paused (resume) adds exactly now - pausedAt to
\* totalPausedTime, clears pausedAt, sets isPaused to false and leaves
\* startTime, initialDuration, currentSession and cycleCount unchanged;
\* totalPausedTime never decreases during the run of a session.
C23_ResumeAddsPausedTime ==
    [][/\ (Receives("start") /\ timerState.isPaused) =>
              /\ timerState'.totalPausedTime =
                     timerState.totalPausedTime + (now - timerState.pausedAt)
              /\ timerState'.pausedAt = 0
              /\ ~timerState'.isPaused
              /\ timerState'.startTime = timerState.startTime
              /\ timerState'.initialDuration = timerState.initialDuration
              /\ timerState'.currentSession = timerState.currentSession
              /\ timerState'.cycleCount = timerState.cycleCount
       /\ SameRun(timerState, timerState') =>
              timerState'.totalPausedTime >= timerState.totalPausedTime]_vars

C25_CompletionCounts ==
    [][/\ Resumes("updateSessionHistory_set") =>
              /\ store'.sessionHistory = store.sessionHistory + 1
              /\ timerState'.cycleCount = timerState.cycleCount
       /\ (completion'.to # "none" /\ completion'.counted) =>
              /\ timerState'.cycleCount = timerState.cycleCount + 1
              /\ store'.sessionHistory = store.sessionHistory
       /\ (completion'.to # "none" /\ ~completion'.counted) =>
              /\ timerState'.cycleCount = timerState.cycleCount
              /\ store'.sessionHistory = store.sessionHistory
       /\ store'.sessionHistory >= store.sessionHistory]_vars

\* this step calls handleTimerComplete from a handler of act: the transition
\* is made in the step, or the handler is suspended on its way to it
InvokesCompletion(act) ==
    \/ completion'.to # "none"
    \/ \E t \in BagToSet(tasks') :
           /\ t.act = act
           /\ CopiesIn(t, tasks') > CopiesIn(t, tasks)
           /\ \E i \in 1..Len(t.stack) :
                  t.stack[i] \in {"handleTimerComplete_history",
                                  "handleTimerComplete_next"}

\* a handler is suspended inside handleTimerComplete
CompletionPending ==
    \E t \in BagToSet(tasks) :
        \E i \in 1..Len(t.stack) :
            t.stack[i] \in {"handleTimerComplete_history",
                            "updateSessionHistory_set",
                            "handleTimerComplete_next"}

\* C26: on every tick while the timer runs, if the recomputed timeRemaining
\* is 0 the tick scheduler is stopped and the completion handler is invoked,
\* also when the stored timeRemaining was 0 before the tick (the timer was
\* paused at the zero-crossing and then resumed).  Ticks that find another
\* handler inside handleTimerComplete already are left aside.
C26_TickAtZeroCompletes ==
    [][(/\ TickFire
        /\ Running(timerState)
        /\ Remaining(timerState, now) = 0
        /\ ~CompletionPending) =>
         /\ timerState'.tickInterval = 0
         /\ \A iv \in intervals' : iv.id # timerState.tickInterval
         /\ InvokesCompletion("tick")]_vars

\* this step returns from loadState's read of the store with the state of a
\* running timer (the catch-up of loadState, then that of getState, follow)
LoadsRunningTimer ==
    \E t \in BagToSet(tasks) :
        /\ t.stack # <<>>
        /\ Head(t.stack) = "loadState_apply"
        /\ CopiesIn(t, tasks') < CopiesIn(t, tasks)
        /\ t.snap.hasState
        /\ Running(t.snap.timerState)
        /\ t.snap.timerState.startTime # 0

\* this step pauses the running timer and snapshots timeRemaining
PausesRunningTimer ==
    /\ Receives("pause")
    /\ Running(timerState)
    /\ timerState.startTime # 0
    /\ timerState.initialDuration # 0

\* C27: each recomputation of timeRemaining (by a tick, by the snapshot of a
\* pause, by the catch-up of loadState or of getState) leaves exactly max(0,
\* initialDuration - floor((now - startTime - totalPausedTime) / 1000)) in
\* the field, unless the completion that a value of 0 calls for has put the
\* next session's duration there in the same step; after a tick the value
\* does not depend on the value stored before, so not on how many earlier
\* ticks were missed.
C27_RecomputationFollowsLaw ==
    [][(\/ TickFire /\ Running(timerState)
        \/ PausesRunningTimer
        \/ LoadsRunningTimer)
       => \/ timerState'.timeRemaining = Remaining(timerState', now)
          \/ completion'.to # "none"]_vars

\* C27 witness: the interval has just fired after a wait of 59 seconds
\* without a tick; its callback has written the remaining time of that
\* instant and saveState has stored it
C27_Witness ==
    /\ \E iv \in intervals :
           iv.id = timerState.tickInterval /\ iv.due = now + TickPeriodMs
    /\ Running(timerState)
    /\ timerState.timeRemaining > 0
    /\ timerState.initialDuration - timerState.timeRemaining >= 59
    /\ timerState.timeRemaining = Law(timerState)
    /\ store.timerState.timeRemaining = timerState.timeRemaining

\* this step takes the handler of a start command through scheduleEndAlarm
StartSchedulesAlarm ==
    \E t \in BagToSet(tasks) :
        /\ t.act = "start"
        /\ t.stack # <<>>
        /\ Head(t.stack) = "scheduleEndAlarm"
        /\ CopiesIn(t, tasks') < CopiesIn(t, tasks)

\* the persisted timer runs, and the timer in memory has neither been paused
\* nor moved on to another session
StillStarted ==
    /\ store.hasState
    /\ Running(store.timerState)
    /\ ~timerState.isPaused
    /\ timerState.currentSession = store.timerState.currentSession
    /\ timerState.cycleCount = store.timerState.cycleCount

\* C28: whenever the timer enters Running, by a fresh start, a resume or an
\* auto-start, a completion alarm is scheduled for now + the remaining
\* seconds, and that deadline is never earlier than the instant at which the
\* elapsed-time law first gives timeRemaining = 0; no alarm is scheduled
\* while the timer is paused or idle.  (An auto-start schedules in the step
\* of the transition, a start command one await later.)
C28_AlarmScheduledOnRunning ==
    [][/\ (alarm' # alarm /\ alarm' # 0) =>
              /\ Running(timerState')
              /\ alarm' = now + (IF timerState'.timeRemaining > 1
                                 THEN timerState'.timeRemaining
                                 ELSE 1) * MsPerSecond
              /\ alarm' >= Deadline(timerState')
       /\ (completion'.to # "none" /\ timerState'.isRunning) =>
              alarm' = now + timerState'.timeRemaining * MsPerSecond
       /\ (StartSchedulesAlarm /\ StillStarted) => alarm' # 0]_vars

\* C29: a failure of the dispatch of the sound or of the desktop
\* notification during a completion neither blocks nor rolls back the
\* transition: the handler goes on exactly as when the dispatch succeeds, so
\* TimerState (session, cycleCount, timeRemaining, running flag), its
\* persisted copy, the alarm, the tick scheduler and what the handler has
\* left to do are the same.
C29_DispatchFailureHarmless ==
    [][resp'.fault = "dispatch" =>
         \E t \in BagToSet(tasks) :
             /\ t.stack # <<>>
             /\ Head(t.stack) = "handleTimerComplete_history"
             /\ LET others == tasks (-) SetToBag({t})
                    r == Run(Globals, t, now, Held(others))
                IN /\ timerState' = r.g.ts
                   /\ store' = r.g.store
                   /\ alarm' = r.g.alarm
                   /\ intervals' = r.g.intervals
                   /\ tasks' = IF r.t.stack = <<>>
                               THEN others
                               ELSE others (+) SetToBag({r.t})]_vars

\* C29 witness: the notification of the end of a break could not be shown,
\* and the handler has made the transition to the work session
C29_Witness ==
    /\ resp.fault = "dispatch"
    /\ completion.to = WORK
    /\ ~completion.counted
    /\ timerState.currentSession = WORK
    /\ timerState.timeRemaining = settings.durations.work

\* C30: if the call that schedules or cancels the alarm fails during start,
\* pause, reset or a completion, the state machine does not end half-applied:
\* once the command has been answered (with the error, no other handler
\* being suspended), the timerState in memory equals the persisted one and a
\* running timer has an active tick interval.
C30_AlarmFailureLeavesWholeState ==
    (resp.fault = "thrown" /\ tasks = EmptyBag) =>
        /\ store.hasState
        /\ Core(timerState) = Core(store.timerState)
        /\ Running(timerState) =>
               \E iv \in intervals : iv.id = timerState.tickInterval

----------------------------------------------------------------------------
(* Persistence, the popup, and the bounds of the remaining time.           *)

\* the fields of a TimerState that are not handles of the running worker
Persisted(ts) == [ts EXCEPT !.tickInterval = 0]

\* C31: TimerState is persisted after every mutation: whenever no handler is
\* in progress on a worker that has loaded its state, the persisted
\* timerState equals the timerState of the worker in isRunning, isPaused,
\* currentSession, timeRemaining, cycleCount, startTime, pausedAt,
\* totalPausedTime and initialDuration, so that the reload of getState changes
\* none of them but by the catch-up of the elapsed time.
C31_PersistedAfterEveryMutation ==
    (tasks = EmptyBag /\ stateLoaded) =>
        /\ store.hasState
        /\ Persisted(store.timerState) = Persisted(timerState)

\* The commands whose handler saves the timerState it has changed.
TimerCommands == {"start", "pause", "reset", "skip"}

\* chrome.storage.local.set rejects in the saveState of a command that a
\* suspended handler goes on to: the write the handler issues in this step
\* (one that would have changed the store) does not take place
SaveRejected ==
    \E t \in BagToSet(tasks) :
        LET others == tasks (-) SetToBag({t})
            g == [Globals EXCEPT !.resp.fault = "store"]
        IN /\ t.act \in TimerCommands
           /\ Run(g, t, now, Held(others)).g.store
                  # Run(Globals, t, now, Held(others)).g.store
           /\ \E r \in {Run(g, t, now, Held(others))} : Commit(r, others)
           /\ UNCHANGED <<now, sent>>

\* the user of the popup clicks when no handler of the worker is suspended
\* (the message before is answered)
Patient(message) == tasks = EmptyBag /\ message

\* a start command resumes the paused timer and the write of its saveState,
\* issued before the first await of startTimer, rejects
StartSaveRejected ==
    /\ timerState.isPaused
    /\ Patient(Message([Globals EXCEPT
                            !.tracked = Untracked,
                            !.pauseRecord.at = IF AwaitsResume THEN now ELSE @,
                            !.acked = NotAcked,
                            !.resp.fault = "store"],
                       "start", StartProgram))

\* the program when the popup sends one message at a time, the worker stays
\* loaded, and a write of timerState by a command may be rejected
StoreFaultNext ==
    \/ Patient(Start)
    \/ Patient(Pause)
    \/ Patient(Reset)
    \/ Patient(Skip)
    \/ Patient(GetState)
    \/ Patient(SaveQuickSettings)
    \/ SaveRejected
    \/ StartSaveRejected
    \/ TickFire
    \/ AlarmFire
    \/ Resume
    \/ QuietStep
    \/ LongWait

StoreFaultSpec == Init /\ [][StoreFaultNext]_vars

\* C32: when a write of the store fails during start, pause, reset or skip,
\* the command is still answered with success and the state the worker has in
\* memory, and the worker goes on with that state: the answer to a getState
\* sent after the acknowledgement reports the isRunning, isPaused,
\* currentSession, cycleCount, startTime, initialDuration and totalPausedTime
\* the command was acknowledged with, not those of the persisted state.
C32_FailedWriteKeepsMemory ==
    /\ resp.action \in TimerCommands =>
           resp.success /\ resp.state = timerState
    /\ (resp.action = "getState" /\ resp.acked.set) =>
           /\ resp.success
           /\ Reported(resp.state) = resp.acked.state

\* the settings the form of the popup can hold in this model
FormSettings == {QuickSettings, NoLongBreakSettings}

\* popup.js, handleSaveSettings up to its await of
\* chrome.storage.local.set({ settings }): the popup writes the settings key
\* itself, and only that key, before it tells the worker
handleSaveSettings ==
    \E raw \in FormSettings :
        /\ CanStartHandler
        /\ sent < MaxMessages
        /\ sent' = sent + 1
        /\ store' = [store EXCEPT !.hasSettings = TRUE, !.settings = raw]
        /\ tasks' = tasks (+) SetToBag(
               {[NewTask("handleSaveSettings", <<"handleSaveSettings_send">>)
                    EXCEPT !.snap = [EmptyStore EXCEPT !.settings = raw]]})
        /\ resp' = NoResponse
        /\ completion' = NoCompletion(completion.k)
        /\ UNCHANGED <<now, timerState, settings, alarm, intervals, stateLoaded,
                       tracked, pauseRecord, acked, popup>>

\* the program with the popup that saves its settings form, and opens and
\* starts the timer
PopupNext ==
    \/ handleSaveSettings
    \/ Start
    \/ GetState
    \/ TickFire
    \/ Resume
    \/ ShortStep

PopupSpec == Init /\ [][PopupNext]_vars

\* C33: the persisted durations key is a mirror of the persisted
\* settings.durations: in every reachable state of the store the two are
\* equal, and so are they in every result of the read of a settings load,
\* which therefore never replaces the saved settings.durations by the older
\* values of the durations key.
C33_DurationsMirrorSettings ==
    /\ (store.hasSettings /\ store.hasDurations) =>
           store.durations = store.settings.durations
    /\ \A t \in BagToSet(tasks) :
           (/\ t.stack # <<>>
            /\ Head(t.stack) = "loadSettings_set"
            /\ t.snap.hasSettings
            /\ t.snap.hasDurations) =>
               t.snap.durations = t.snap.settings.durations

----------------------------------------------------------------------------
(* The display of the popup.                                               *)

\* updateButtons: skipBtn.disabled, the timer at rest with the full duration
\* of its session in the settings of the popup
SkipDisabled ==
    LET cs == popup.currentState
    IN /\ ~cs.isRunning
       /\ ~cs.isPaused
       /\ cs.timeRemaining = getSessionDuration(popup.currentSettings, cs.currentSession)

\* handleStartPause up to its await of sendMessage: pause when the snapshot
\* runs, start otherwise
handleStartPause ==
    /\ popup.hasState
    /\ IF popup.currentState.isRunning /\ ~popup.currentState.isPaused
       THEN Pause
       ELSE Start

\* handleSkip up to its await of sendMessage
handleSkip == popup.hasState /\ ~SkipDisabled /\ Skip

\* startUIUpdate, the callback of the popup's interval when it finds the
\* running countdown at zero: updateUI() up to its await of sendMessage
startUIUpdate ==
    /\ popup.hasState
    /\ popup.currentState.isRunning
    /\ ~popup.currentState.isPaused
    /\ popup.checkpointStartAt # 0
    /\ getRemainingSeconds(popup, now) <= 0
    /\ GetState

\* handleSaveSettings from the response to updateSettings on: updateUI() up
\* to its await of sendMessage
handleSaveSettings_updateUI ==
    /\ popup.refresh
    /\ Message([Globals EXCEPT !.popup.refresh = FALSE], "getState", GetStateProgram)

\* the snapshot and the checkpoint of the popup that was open when the
\* one-minute session was started: handleStartPause received the response to
\* its start at InitialNow
StartedPopup ==
    LET s == sanitize(TRUE, QuickSettings)
        started == [NearEndTimerState EXCEPT !.timeRemaining = s.durations.work]
    IN Adopt(CheckpointRunning([NoPopup EXCEPT !.open = TRUE, !.currentSettings = s],
                               started, InitialNow),
             started)

\* the last seconds of the session, the popup open
DisplayInit == NearEndWorker /\ popup = StartedPopup

DisplayNext ==
    \/ Patient(handleStartPause)
    \/ Patient(handleSkip)
    \/ Patient(handleSaveSettings)
    \/ handleSaveSettings_updateUI
    \/ startUIUpdate
    \/ TickFire
    \/ AlarmFire
    \/ Resume
    \/ HalfSecond

DisplaySpec == DisplayInit /\ [][DisplayNext]_vars

\* C34: whenever the popup holds a snapshot in which the timer runs (from
\* getState, start, skip or updateSettings), its checkpoint has a start
\* instant and the duration of the snapshot, so that the displayed countdown
\* advances and the re-poll at zero can fire; and a step that sets the start
\* instant sets it to the clock of the receipt, with elapsed =
\* initialDuration - timeRemaining of the snapshot received.
C34_RunningSnapshotHasCheckpoint ==
    /\ [](popup.hasState /\ Running(popup.currentState) =>
              /\ popup.checkpointStartAt # 0
              /\ popup.checkpointDuration = popup.currentState.initialDuration)
    /\ [][(popup'.checkpointStartAt # popup.checkpointStartAt
           /\ popup'.checkpointStartAt # 0) =>
              /\ popup'.checkpointStartAt = now'
              /\ popup'.checkpointElapsed =
                     (popup'.currentState.initialDuration
                        - popup'.currentState.timeRemaining) * MsPerSecond]_vars

\* what the popup believes of the session: session, count and flags of the
\* snapshot it holds
Believed(p) ==
    <<p.hasState, p.currentState.currentSession, p.currentState.cycleCount,
      p.currentState.isRunning, p.currentState.isPaused>>

\* C35: when the displayed remaining time is 0 while the popup believes the
\* timer Running and no message is unanswered, the callback of its interval
\* sends getState (its test passes, which takes a start instant of the
\* checkpoint) and the popup adopts the snapshot of the answer; the popup changes
\* the session, the count and the flags it believes only by adopting the
\* snapshot of an answer, and a step of the popup alone (its write of the
\* settings key) leaves the timerState of the worker and of the store alone.
C35_RepollAtZeroAdoptsSnapshot ==
    /\ []((/\ tasks = EmptyBag
           /\ popup.hasState
           /\ Running(popup.currentState)
           /\ getRemainingSeconds(popup, now) <= 0)
              => popup.checkpointStartAt # 0)
    /\ [][/\ (popup.open /\ resp'.action = "getState" /\ resp'.success)
                 => popup'.currentState = resp'.state
          /\ Believed(popup') # Believed(popup)
                 => /\ resp'.action # "none"
                    /\ resp'.success
                    /\ popup'.currentState = resp'.state
          /\ handleSaveSettings
                 => /\ timerState' = timerState
                    /\ store'.timerState = store.timerState
                    /\ popup' = popup]_vars

\* the snapshot the popup holds is of the run the worker is in: both are
\* running and agree on the fields of the elapsed-time law
SnapshotOfRun ==
    /\ popup.hasState
    /\ Running(popup.currentState)
    /\ Running(timerState)
    /\ Reported(popup.currentState) = Reported(timerState)

\* C36: while the timer runs and the popup holds a snapshot of that run, the
\* remaining time the popup displays is never smaller than the remaining time
\* of the elapsed-time law at the same instant (both in thousandths of a
\* second); in particular the display is not at 0 before the law is.
C36_DisplayNotBelowLaw ==
    SnapshotOfRun =>
        getRemainingSeconds(popup, now) >= Law(timerState) * MsPerSecond

-----------------------------------------------------------------------------
(* The cycle position of the popup.                                        *)

\* the largest cycleCount of a snapshot given to updateSessionInfo
MaxCycleCount == 24

\* The popup has received a snapshot with some cycleCount and holds settings
\* with some longBreakInterval of the valid range above 0; updateSessionInfo
\* has not been called for it yet (sent = 0).
CycleInit ==
    /\ \E c \in 0..MaxCycleCount :
           \E interval \in 1..MaxLongBreakInterval :
               popup = [NoPopup EXCEPT
                           !.open = TRUE,
                           !.hasState = TRUE,
                           !.currentState.cycleCount = c,
                           !.currentSettings.longBreakInterval = interval]
    /\ settings = DEFAULT_SETTINGS
    /\ store = EmptyStore
    /\ sent = 0
    /\ now = InitialNow
    /\ timerState = DefaultTimerState
    /\ alarm = 0
    /\ intervals = {}
    /\ tasks = EmptyBag
    /\ resp = NoResponse
    /\ stateLoaded = FALSE
    /\ tracked = Untracked
    /\ completion = NoCompletion(0)
    /\ pauseRecord = NoPause
    /\ acked = NotAcked

\* updateSessionInfo() is called for the snapshot held
CycleShown ==
    /\ sent = 0
    /\ popup' = updateSessionInfo(popup)
    /\ sent' = 1
    /\ UNCHANGED <<now, timerState, settings, store, alarm, intervals, tasks,
                   resp, stateLoaded, tracked, completion, pauseRecord, acked>>

CycleNext == CycleShown

CycleSpec == CycleInit /\ [][CycleNext]_vars

\* C37: for every cycleCount >= 0 and interval in 1..12 the position shown is
\* 0 when cycleCount = 0, otherwise cycleCount mod interval, or interval when
\* that remainder is 0; so it lies in 0..interval, is 0 only before the first
\* completed work session, and otherwise is the one number of 1..interval
\* that differs from cycleCount by a multiple of interval.
C37_CyclePosition ==
    sent = 1 =>
        LET c == popup.currentState.cycleCount
            interval == popup.currentSettings.longBreakInterval
            shown == popup.cycleInfo
        IN /\ c = 0 => shown = 0
           /\ (c # 0 /\ c % interval # 0) => shown = c % interval
           /\ (c # 0 /\ c % interval = 0) => shown = interval
           /\ shown \in 0..interval
           /\ shown = 0 <=> c = 0
           /\ c # 0 => (c - shown) % interval = 0

\* after a whole number of cycles the position shown is the interval, not 0
C37_Witness ==
    /\ sent = 1
    /\ popup.currentState.cycleCount = 2 * MaxLongBreakInterval
    /\ popup.currentSettings.longBreakInterval = MaxLongBreakInterval
    /\ popup.cycleInfo = MaxLongBreakInterval

-----------------------------------------------------------------------------
(* The bounds of the remaining time and the duration of the session.       *)

\* 0 <= timeRemaining <= initialDuration
WithinDuration(ts) ==
    0 <= ts.timeRemaining /\ ts.timeRemaining <= ts.initialDuration

\* the step assigns a persisted timerState that a handler has read to the
\* worker's timerState (loadState), the remaining time apart
Reloaded ==
    \E t \in BagToSet(tasks) :
        /\ t.snap.hasState
        /\ Reported(t.snap.timerState) = Reported(timerState')

\* the step sets the duration of the session, begins a session or moves to
\* another one
SessionSet ==
    \/ timerState'.initialDuration # timerState.initialDuration
    \/ timerState'.currentSession # timerState.currentSession
    \/ timerState'.startTime # timerState.startTime /\ timerState'.startTime # 0

=============================================================================
